---------------------------- MODULE Spec2Model ----------------------------
(***************************************************************************)
(* A model of hjs-file (src/lib/file.js): the dual-mode (blocking /        *)
(* callback) filesystem layer.                                             *)
(*                                                                         *)
(*   SpecPrim    the primitive operation set: every static primitive of    *)
(*               class File called synchronously or asynchronously, with  *)
(*               or without a callback, with or without its required       *)
(*               argument, over a native call that succeeds or fails.      *)
(*   SpecMkdirs  File.mkdirs over a directory tree.                        *)
(*   SpecRimraf  File.rimraf over a directory tree.                        *)
(*   SpecHandle  the methods of a File handle (exists, canRead, isFile,    *)
(*               createDir, createFile, open, close, read, write,          *)
(*               getInputStream) over the entity at the handle's path.     *)
(*   SpecStream  a FileInputStream: open, read, skip, mark, reset, close.  *)
(*                                                                         *)
(* JavaScript values are modelled as follows.  A callback argument is      *)
(* NOCB (null), USERCB (a function supplied by the caller) or UNBOUND (the *)
(* source names an identifier that is declared nowhere, so evaluating the  *)
(* argument throws a ReferenceError).  A return value is a record          *)
(* [t, v]: t = "int" with the number v, t = "undef" (undefined) or         *)
(* t = "obj" (a payload object).  A failure cause is a string; "null" is   *)
(* the JavaScript null.                                                    *)
(***************************************************************************)
EXTENDS Integers, Sequences, FiniteSets, TLC

VARIABLES
    EX,     \* the process-wide last-error slot (file.js:310)
    fs,     \* the filesystem: [dirs, files], sets of absolute paths
    pc,     \* SpecPrim: the primitive call in progress / last finished
    mk,     \* SpecMkdirs: the mkdirs call in progress / last finished
    rm,     \* SpecRimraf: the rimraf call in progress / last finished
    fh,     \* SpecHandle: a File handle, its path's entity and its call
    fis,    \* SpecStream: a FileInputStream and the file it reads
    fw,     \* SpecWatch: a File handle and its watch subscriptions
    fc      \* SpecClose: a File handle and the descriptors closed through it

vars == <<EX, fs, pc, mk, rm, fh, fis, fw, fc>>

-----------------------------------------------------------------------------
(* Status and entity-kind sentinels.                                       *)

SUCCESS == 1
ERROR == 0
FILE == 3
DIR == 4

NOCB == "null"
USERCB == "user"
UNBOUND == "unbound"

UNDEF == [t |-> "undef", v |-> 0]
OBJ == [t |-> "obj", v |-> 0]
Num(n) == [t |-> "int", v |-> n]

\* JavaScript `r === ERROR`
IsERROR(r) == r.t = "int" /\ r.v = ERROR

-----------------------------------------------------------------------------
(* The Result Convention.  A call context c carries what a call has done   *)
(* so far: the last-error slot, the invocations of the caller's callback,  *)
(* an uncaught throw, the native calls still outstanding, the number of    *)
(* native calls issued, and whether the call has assigned the last-error   *)
(* slot (wrote).                                                           *)

Ctx(ex) ==
    [EX |-> ex, cbs |-> <<>>, threw |-> "none", pend |-> {}, natives |-> 0,
     ret |-> UNDEF, wrote |-> FALSE]

Invoke(c, status, payload) ==
    [c EXCEPT !.cbs = Append(@, [status |-> status, payload |-> payload])]

\* const handleError = (ex=null, cb=null) => { cb !== null ? cb(ERROR, ex) : EX = ex }
handleError(ex, cb, c) ==
    IF cb # NOCB THEN Invoke(c, ERROR, ex)
    ELSE [c EXCEPT !.EX = ex, !.wrote = TRUE]

\* const handleSuccess = (result=null, cb=null) => { if (cb === null) return result; cb(SUCCESS, result) }
handleSuccess(result, cb, c) ==
    IF cb = NOCB THEN c ELSE Invoke(c, SUCCESS, result)

Return(c, r) == [c EXCEPT !.ret = r]
Throw(c, what) == [c EXCEPT !.threw = what]


-----------------------------------------------------------------------------
(* The primitive operation set.  Every static primitive has the same       *)
(* skeleton:                                                               *)
(*     if (arg === null) handleError(new ReferenceError(nullEx), nullCb);  *)
(*     else if (sync) { try { native } catch (ex) { ... } }                *)
(*     else native(..., (err, data) => err ? handleError(err, errCb)       *)
(*                                         : handleSuccess(data, cb));     *)
(* and differs in: the name it hands to handleError when the argument is   *)
(* missing, the shape of its blocking branch, and the callback its         *)
(* completion closure hands to handleError.  a = [argNull, sync, cb] are   *)
(* the arguments, ok the outcome of the blocking native call.              *)

NativeError == "NativeError"

Issue(c) == [c EXCEPT !.natives = @ + 1]

\* let code = SUCCESS; try { native } catch (ex) { code = ERROR; handleError(ex, cb) } finally { return code }
SyncCode(cb, ok, c) ==
    IF ok THEN Return(Issue(c), Num(SUCCESS))
    ELSE Return(handleError(NativeError, cb, Issue(c)), Num(ERROR))

\* ... finally { return code !== ERROR ? data : ERROR }
SyncData(cb, ok, c) ==
    IF ok THEN Return(Issue(c), OBJ)
    ELSE Return(handleError(NativeError, cb, Issue(c)), Num(ERROR))

\* try { native } catch (ex) { handleError(ex, cb) }      (no return statement)
SyncVoid(cb, ok, c) ==
    IF ok THEN Issue(c) ELSE handleError(NativeError, cb, Issue(c))

\* try { return native } catch (ex) { handleError(ex, cb) }  (the native returns undefined)
SyncDirect(cb, ok, c) ==
    IF ok THEN Return(Issue(c), UNDEF) ELSE handleError(NativeError, cb, Issue(c))

SyncBranch(shape, cb, ok, c) ==
    CASE shape = "code" -> SyncCode(cb, ok, c)
      [] shape = "data" -> SyncData(cb, ok, c)
      [] shape = "void" -> SyncVoid(cb, ok, c)
      [] shape = "direct" -> SyncDirect(cb, ok, c)

\* native(..., closure): the closure is kept with the outstanding call
Dispatch(c, op, errCb, okCb, then) ==
    [Issue(c) EXCEPT !.pend = @ \cup
        {[op |-> op, errCb |-> errCb, okCb |-> okCb, then |-> then]}]

Primitive(op, a, ok, c, nullEx, nullCb, shape, errCb) ==
    IF a.argNull THEN
        IF nullCb = UNBOUND THEN Throw(c, "ReferenceError")
        ELSE handleError(nullEx, nullCb, c)
    ELSE IF a.sync THEN SyncBranch(shape, a.cb, ok, c)
    ELSE Dispatch(c, op, errCb, a.cb, "none")

access(a, ok, c) ==
    Primitive("access", a, ok, c, "SourceNotFoundException", a.cb, "code", a.cb)

appendFile(a, ok, c) ==
    Primitive("appendFile", a, ok, c, "FileNotFoundException", a.cb, "code", a.cb)

chmod(a, ok, c) ==
    Primitive("chmod", a, ok, c, "FileNotFoundException", a.cb, "code", NOCB)

closeFd(a, ok, c) ==
    Primitive("closeFd", a, ok, c, "FileNotFoundException", a.cb, "code", NOCB)

\* mkdtempSync(src, ...) / mkdtemp(src, ..., { encoding }, ...): src and
\* encoding are declared nowhere, so evaluating the arguments throws; the
\* blocking branch catches it, the non-blocking branch does not.
createTempDir(a, ok, c) ==
    IF a.argNull THEN handleError("PrefixNotFoundException", a.cb, c)
    ELSE IF a.sync
        THEN Return(handleError("ReferenceError", a.cb, c), Num(ERROR))
        ELSE Throw(c, "ReferenceError")

dataSync(a, ok, c) ==
    Primitive("dataSync", a, ok, c, "FdNotFoundException", a.cb, "void", NOCB)

execFile(a, ok, c) ==
    Primitive("execFile", a, ok, c, "SourceNotFoundException", UNBOUND, "data", NOCB)

futimes(a, ok, c) ==
    Primitive("futimes", a, ok, c, "FdNotFoundException", a.cb, "void", NOCB)

mkdir(a, ok, c) ==
    Primitive("mkdir", a, ok, c, "SourceNotFoundException", a.cb, "code", NOCB)

openFd(a, ok, c) ==
    Primitive("openFd", a, ok, c, "SourceNotFoundException", a.cb, "data", NOCB)

readFd(a, ok, c) ==
    Primitive("readFd", a, ok, c, "SourceNotFoundException", a.cb, "data", a.cb)

readFileOrDir(a, ok, c) ==
    Primitive("readFileOrDir", a, ok, c, "SourceNotFoundException", a.cb, "data", a.cb)

realpath(a, ok, c) ==
    Primitive("realpath", a, ok, c, "PathNotFoundException", a.cb, "data", a.cb)

\* blocking: accessSync and rmdirSync/unlinkSync share one try block;
\* non-blocking: access(src, R_OK | W_OK, (err) => err ? handleError(err, cb) : rmdir/unlink(...))
removeFileOrDir(a, ok, c) ==
    IF a.argNull THEN handleError("FileNotFoundException", a.cb, c)
    ELSE IF a.sync THEN SyncCode(a.cb, ok, IF ok THEN Issue(c) ELSE c)
    ELSE Dispatch(c, "access", a.cb, a.cb, "remove")

rename(a, ok, c) ==
    Primitive("rename", a, ok, c, "FileNotFoundException", a.cb, "code", a.cb)

stat(a, ok, c) ==
    Primitive("stat", a, ok, c, "StatNotFoundException", a.cb, "data", a.cb)

\* no null check: the null reaches the native symlink/symlinkSync, whose
\* argument validation throws a TypeError before any system call
symlink(a, ok, c) ==
    IF a.argNull THEN
        IF a.sync THEN Return(handleError("TypeError", a.cb, c), Num(ERROR))
        ELSE Throw(c, "TypeError")
    ELSE IF a.sync THEN SyncCode(a.cb, ok, c)
    ELSE Dispatch(c, "symlink", a.cb, a.cb, "none")

sync(a, ok, c) ==
    Primitive("sync", a, ok, c, "FdNotFoundException", a.cb, "void", NOCB)

truncate(a, ok, c) ==
    Primitive("truncate", a, ok, c, "FileNotFoundException", a.cb, "direct", a.cb)

utimes(a, ok, c) ==
    Primitive("utimes", a, ok, c, "FileNotFoundException", a.cb, "code", a.cb)

writeFd(a, ok, c) ==
    Primitive("writeFd", a, ok, c, "SourceNotFoundException", UNBOUND, "data", a.cb)

writeFile(a, ok, c) ==
    Primitive("writeFile", a, ok, c, "SourceNotFoundException", UNBOUND, "code", a.cb)

Prims ==
    {"access", "appendFile", "chmod", "closeFd", "createTempDir", "dataSync",
     "execFile", "futimes", "mkdir", "openFd", "readFd", "readFileOrDir",
     "realpath", "removeFileOrDir", "rename", "stat", "symlink", "sync",
     "truncate", "utimes", "writeFd", "writeFile"}

CallPrim(op, a, ok, c) ==
    CASE op = "access" -> access(a, ok, c)
      [] op = "appendFile" -> appendFile(a, ok, c)
      [] op = "chmod" -> chmod(a, ok, c)
      [] op = "closeFd" -> closeFd(a, ok, c)
      [] op = "createTempDir" -> createTempDir(a, ok, c)
      [] op = "dataSync" -> dataSync(a, ok, c)
      [] op = "execFile" -> execFile(a, ok, c)
      [] op = "futimes" -> futimes(a, ok, c)
      [] op = "mkdir" -> mkdir(a, ok, c)
      [] op = "openFd" -> openFd(a, ok, c)
      [] op = "readFd" -> readFd(a, ok, c)
      [] op = "readFileOrDir" -> readFileOrDir(a, ok, c)
      [] op = "realpath" -> realpath(a, ok, c)
      [] op = "removeFileOrDir" -> removeFileOrDir(a, ok, c)
      [] op = "rename" -> rename(a, ok, c)
      [] op = "stat" -> stat(a, ok, c)
      [] op = "symlink" -> symlink(a, ok, c)
      [] op = "sync" -> sync(a, ok, c)
      [] op = "truncate" -> truncate(a, ok, c)
      [] op = "utimes" -> utimes(a, ok, c)
      [] op = "writeFd" -> writeFd(a, ok, c)
      [] op = "writeFile" -> writeFile(a, ok, c)

\* The event loop runs the completion closure of an outstanding native call.
Complete(p, ok, c) ==
    LET c1 == [c EXCEPT !.pend = @ \ {p}] IN
    IF ~ok THEN handleError(NativeError, p.errCb, c1)
    ELSE IF p.then = "remove" THEN Dispatch(c1, "remove", p.errCb, p.okCb, "none")
    ELSE handleSuccess("data", p.okCb, c1)

-----------------------------------------------------------------------------
(* SpecPrim: one primitive call at a time.                                 *)

NoFs == [dirs |-> {}, files |-> {}]
Idle == [op |-> "none"]

PcInit ==
    [op |-> "none",
     a |-> [argNull |-> FALSE, sync |-> TRUE, cb |-> NOCB],
     nat |-> "none",
     c |-> Ctx("null")]

InitPrim ==
    /\ EX = "null"
    /\ fs = NoFs
    /\ pc = PcInit
    /\ mk = Idle
    /\ rm = Idle
    /\ fh = Idle
    /\ fis = Idle
    /\ fw = Idle
    /\ fc = Idle

\* the caller invokes File.<op>({ src, sync, on...: cb })
PrimCall(op, argNull, isSync, cb) ==
    /\ pc.c.pend = {}
    /\ \E ok \in BOOLEAN :
        LET a == [argNull |-> argNull, sync |-> isSync, cb |-> cb]
            r == CallPrim(op, a, ok, Ctx(EX))
            ran == isSync /\ r.natives > 0
        IN  /\ (~ran) => ok
            /\ pc' = [op |-> op, a |-> a,
                      nat |-> IF ~ran \/ ~isSync THEN "none"
                              ELSE IF ok THEN "ok" ELSE "fail",
                      c |-> r]
            /\ EX' = r.EX
    /\ UNCHANGED <<fs, mk, rm, fh, fis, fw, fc>>

\* a native call ends and the event loop runs its closure
PrimComplete ==
    /\ \E p \in pc.c.pend, ok \in BOOLEAN :
        LET r == Complete(p, ok, pc.c)
        IN  /\ pc' = [pc EXCEPT !.c = r,
                        !.nat = IF ~ok THEN "fail"
                                ELSE IF r.pend = {} THEN "ok" ELSE "none"]
            /\ EX' = r.EX
    /\ UNCHANGED <<fs, mk, rm, fh, fis, fw, fc>>

NextPrim ==
    \/ \E op \in Prims, argNull \in BOOLEAN, isSync \in BOOLEAN, cb \in {NOCB, USERCB} :
          PrimCall(op, argNull, isSync, cb)
    \/ PrimComplete

SpecPrim == InitPrim /\ [][NextPrim]_vars

PrimQuiet == pc.op # "none" /\ pc.c.pend = {}

-----------------------------------------------------------------------------
(* Paths and the native filesystem.  A path string is [abs, segs]: whether *)
(* it starts with the separator, and its segments.  The filesystem is      *)
(* [dirs, files, cwd]: the absolute paths (segment sequences from the      *)
(* root <<>>) of the directories and plain files, and the process's        *)
(* working directory, against which the native calls resolve a relative    *)
(* path.                                                                   *)

Names == {"a"}
MaxSegs == 2

RECURSIVE SeqsUpTo(_, _)
SeqsUpTo(S, n) ==
    IF n = 0 THEN {<<>>}
    ELSE LET shorter == SeqsUpTo(S, n - 1)
         IN  shorter \cup {Append(q, x) : q \in shorter, x \in S}

Front(q) == SubSeq(q, 1, Len(q) - 1)

Prefixes(q) == {SubSeq(q, 1, n) : n \in 0..Len(q)}

Resolve(p, f) == IF p.abs THEN p.segs ELSE f.cwd \o p.segs

Exists(q, f) == q \in f.dirs \cup f.files

\* String.prototype.split(sep): "/a/b" -> ["", "a", "b"], "a/b" -> ["a", "b"],
\* "/" -> ["", ""], "" -> [""]
Split(p) ==
    IF p.segs = <<>> THEN (IF p.abs THEN <<"", "">> ELSE <<"">>)
    ELSE IF p.abs THEN <<"">> \o p.segs ELSE p.segs

\* path.join(...parts): zero-length parts are ignored and the rest joined by
\* the separator, so the result starts with a separator only if the first
\* non-empty part does (none here: a part holds no separator); nothing left
\* gives "."
Join(parts) ==
    [abs |-> FALSE, segs |-> SelectSeq(parts, LAMBDA x : x # "")]

\* static splitPaths(path)
splitPaths(path) ==
    LET parts == Split(path)
    IN  [i \in 1..Len(parts) |-> Join(SubSeq(parts, 1, i))]

\* fs.mkdir / fs.mkdirSync on the resolved path q: "ok" or the error code
NativeMkdir(q, f) ==
    IF Exists(q, f) THEN "EEXIST"
    ELSE IF Front(q) \in f.files THEN "ENOTDIR"
    ELSE IF Front(q) \notin f.dirs THEN "ENOENT"
    ELSE "ok"

\* fs.access / fs.accessSync
NativeAccess(q, f) == IF Exists(q, f) THEN "ok" ELSE "ENOENT"

-----------------------------------------------------------------------------
(* File.mkdirs.  A run state s = [fs, log, err] carries the filesystem,    *)
(* the native calls issued so far with their results, and the error of the *)
(* last native call ("none" when it succeeded).  deny is the index of the  *)
(* queue entry whose creation the operating system refuses (EACCES), 0 for *)
(* none.                                                                   *)

DoMkdir(p, idx, deny, s) ==
    LET q == Resolve(p, s.fs)
        r == IF idx = deny THEN "EACCES" ELSE NativeMkdir(q, s.fs)
    IN  [fs |-> IF r = "ok" THEN [s.fs EXCEPT !.dirs = @ \cup {q}] ELSE s.fs,
         log |-> Append(s.log, [op |-> "mkdir", idx |-> idx, path |-> q, res |-> r]),
         err |-> IF r = "ok" THEN "none" ELSE r]

DoAccess(p, idx, s) ==
    LET q == Resolve(p, s.fs)
        r == NativeAccess(q, s.fs)
    IN  [fs |-> s.fs,
         log |-> Append(s.log, [op |-> "access", idx |-> idx, path |-> q, res |-> r]),
         err |-> IF r = "ok" THEN "none" ELSE r]

\* mkdirsLoop with the leaf treated like an ancestor (created only when the
\* accessibility check fails)
RECURSIVE mkdirsLoop_LeafChecked(_, _, _, _)
mkdirsLoop_LeafChecked(queue, i, deny, s) ==
    IF i > Len(queue) THEN s
    ELSE LET s1 == DoAccess(queue[i], i, s)
         IN  IF s1.err = "none" THEN mkdirsLoop_LeafChecked(queue, i + 1, deny, s1)
             ELSE LET s2 == DoMkdir(queue[i], i, deny, s1)
                  IN  IF s2.err = "none"
                      THEN mkdirsLoop_LeafChecked(queue, i + 1, deny, s2)
                      ELSE s2

\* for (let i = 0; i < len; i++) { ... }   (file.js:1236-1247; i counts from 1 here)
RECURSIVE mkdirsLoop(_, _, _, _)
mkdirsLoop(queue, i, deny, s) ==
    IF i > Len(queue) THEN s
    ELSE IF i = Len(queue) THEN DoMkdir(queue[i], i, deny, s)
    ELSE LET s1 == DoAccess(queue[i], i, s)
         IN  IF s1.err = "none" THEN mkdirsLoop(queue, i + 1, deny, s1)
             ELSE LET s2 == DoMkdir(queue[i], i, deny, s1)
                  IN  IF s2.err = "none" THEN mkdirsLoop(queue, i + 1, deny, s2)
                      ELSE s2

\* the blocking branch of mkdirs: [c, s]
mkdirsSync(queue, deny, cb, c, s) ==
    LET s1 == IF Len(queue) < 2 THEN DoMkdir(queue[1], 1, deny, s)
              ELSE mkdirsLoop(queue, 1, deny, s)
        c1 == [c EXCEPT !.natives = Len(s1.log)]
    IN  [s |-> s1,
         c |-> IF s1.err = "none" THEN Return(c1, Num(SUCCESS))
               ELSE Return(handleError(s1.err, cb, c1), Num(ERROR))]

MkIssue(c, op, path, idx, k) ==
    [Issue(c) EXCEPT !.pend = @ \cup {[op |-> op, path |-> path, idx |-> idx, k |-> k]}]

\* next() dispatching the entry after the head together with the head
mkdirsNext_TwoAtOnce(queue, qlen, cb, c) ==
    IF queue = <<>> THEN [queue |-> queue, c |-> handleSuccess("null", cb, c)]
    ELSE LET idx == qlen - Len(queue) + 1
         IN  IF Tail(queue) = <<>>
             THEN [queue |-> <<>>,
                   c |-> MkIssue(c, "mkdir", Head(queue), idx, "next")]
             ELSE [queue |-> Tail(Tail(queue)),
                   c |-> MkIssue(MkIssue(c, "access", Head(queue), idx, "access"),
                                 "mkdir", queue[2], idx + 1, "next")]

\* const next = () => { let path = queue.shift(); ... }: [queue, c]
mkdirsNext(queue, qlen, cb, c) ==
    IF queue = <<>> THEN [queue |-> queue, c |-> handleSuccess("null", cb, c)]
    ELSE LET idx == qlen - Len(queue) + 1
         IN  [queue |-> Tail(queue),
              c |-> IF Tail(queue) = <<>>
                    THEN MkIssue(c, "mkdir", Head(queue), idx, "next")
                    ELSE MkIssue(c, "access", Head(queue), idx, "access")]

\* the non-blocking branch of mkdirs: [queue, c]
mkdirsAsync(queue, cb, c) ==
    IF Len(queue) < 2
    THEN [queue |-> queue, c |-> MkIssue(c, "mkdir", queue[1], 1, "single")]
    ELSE mkdirsNext(queue, Len(queue), cb, c)

\* the closure of an outstanding native call n, run when the call ended
\* with s.err: [queue, c]
mkdirsClosure(n, queue, qlen, cb, c, s) ==
    CASE n.k = "single" ->
            [queue |-> queue,
             c |-> IF s.err # "none" THEN handleError(s.err, NOCB, c)
                   ELSE handleSuccess("null", cb, c)]
      [] n.k = "next" ->
            IF s.err # "none"
            THEN [queue |-> queue, c |-> handleError(s.err, NOCB, c)]
            ELSE mkdirsNext(queue, qlen, cb, c)
      [] n.k = "access" ->
            IF s.err = "none" THEN mkdirsNext(queue, qlen, cb, c)
            ELSE [queue |-> queue, c |-> MkIssue(c, "mkdir", n.path, n.idx, "next")]

-----------------------------------------------------------------------------
(* SpecMkdirs: one mkdirs call at a time over a filesystem that starts     *)
(* with the root and the working directory.                                *)

PathArgs == {[abs |-> ab, segs |-> q] : ab \in BOOLEAN, q \in SeqsUpTo(Names, MaxSegs) \ {<<>>}}

Cwds == {<<>>, <<"w">>}

\* what the caller of a finished call has been told: "SUCCESS", "ERROR" or "none"
Told(r) ==
    IF r.a.cb = USERCB
    THEN (IF r.c.cbs = <<>> THEN "none"
          ELSE IF r.c.cbs[Len(r.c.cbs)].status = SUCCESS THEN "SUCCESS" ELSE "ERROR")
    ELSE IF ~r.a.sync \/ r.c.ret.t # "int" THEN "none"
    ELSE IF r.c.ret.v = SUCCESS THEN "SUCCESS" ELSE "ERROR"

InitMkdirs ==
    /\ EX = "null"
    /\ \E w \in Cwds : fs = [dirs |-> {<<>>, w}, files |-> {}, cwd |-> w]
    /\ pc = PcInit
    /\ mk = [op |-> "none", c |-> Ctx("null")]
    /\ rm = Idle
    /\ fh = Idle
    /\ fis = Idle
    /\ fw = Idle
    /\ fc = Idle

\* the caller invokes File.mkdirs({ src, onCreate: cb, sync })
MkdirsCall(src, isSync, cb, deny) ==
    /\ mk.c.pend = {}
    /\ LET a == [argNull |-> FALSE, sync |-> isSync, cb |-> cb]
           queue == splitPaths(src)
           s0 == [fs |-> fs, log |-> <<>>, err |-> "none"]
           again == mk.op = "mkdirs" /\ ~mk.a.argNull /\ mk.src = src
                        /\ Told(mk) = "SUCCESS"
           base == [op |-> "mkdirs", a |-> a, src |-> src, deny |-> deny,
                    qlen |-> Len(queue), again |-> again]
       IN  /\ deny \in 0..Len(queue)
           /\ IF isSync THEN
                  LET r == mkdirsSync(queue, deny, cb, Ctx(EX), s0)
                  IN  /\ mk' = base @@ [queue |-> <<>>, c |-> r.c, log |-> r.s.log,
                                        err |-> r.s.err]
                      /\ EX' = r.c.EX
                      /\ fs' = r.s.fs
              ELSE
                  LET r == mkdirsAsync(queue, cb, Ctx(EX))
                  IN  /\ mk' = base @@ [queue |-> r.queue, c |-> r.c, log |-> <<>>,
                                        err |-> "none"]
                      /\ EX' = r.c.EX
                      /\ fs' = fs
    /\ UNCHANGED <<pc, rm, fh, fis, fw, fc>>

\* the caller invokes File.mkdirs({ src: null, onCreate: cb, sync })
MkdirsCallNull(isSync, cb) ==
    /\ mk.c.pend = {}
    /\ LET a == [argNull |-> TRUE, sync |-> isSync, cb |-> cb]
           c == handleError("SourceNotFoundException", cb, Ctx(EX))
       IN  /\ mk' = [op |-> "mkdirs", a |-> a, src |-> [abs |-> FALSE, segs |-> <<>>],
                     deny |-> 0, qlen |-> 0, again |-> FALSE, queue |-> <<>>,
                     c |-> c, log |-> <<>>, err |-> "none"]
           /\ EX' = c.EX
    /\ UNCHANGED <<fs, pc, rm, fh, fis, fw, fc>>

\* an outstanding native call of the mkdirs in progress ends and the event
\* loop runs its closure
MkdirsStep ==
    /\ mk.op = "mkdirs"
    /\ \E n \in mk.c.pend :
        LET s0 == [fs |-> fs, log |-> mk.log, err |-> "none"]
            s1 == IF n.op = "access" THEN DoAccess(n.path, n.idx, s0)
                  ELSE DoMkdir(n.path, n.idx, mk.deny, s0)
            c1 == [mk.c EXCEPT !.pend = @ \ {n}]
            r == mkdirsClosure(n, mk.queue, mk.qlen, mk.a.cb, c1, s1)
        IN  /\ mk' = [mk EXCEPT !.queue = r.queue, !.c = r.c, !.log = s1.log,
                                !.err = IF n.op = "mkdir" THEN s1.err ELSE @]
            /\ EX' = r.c.EX
            /\ fs' = s1.fs
    /\ UNCHANGED <<pc, rm, fh, fis, fw, fc>>

NextMkdirs ==
    \/ \E src \in PathArgs, isSync \in BOOLEAN, cb \in {NOCB, USERCB},
          deny \in 0..(MaxSegs + 1) :
          MkdirsCall(src, isSync, cb, deny)
    \/ \E isSync \in BOOLEAN, cb \in {NOCB, USERCB} : MkdirsCallNull(isSync, cb)
    \/ MkdirsStep

SpecMkdirs == InitMkdirs /\ [][NextMkdirs]_vars

MkdirsDone == mk.op = "mkdirs" /\ ~mk.a.argNull /\ mk.c.pend = {}

-----------------------------------------------------------------------------
(* File.rimraf.  The run state s = [fs, log, err] is as for mkdirs; fault  *)
(* is the native call [op, path] that the operating system refuses         *)
(* (EACCES), op = "none" for none.                                         *)

NameOrder == <<"a", "b">>

NoFault == [op |-> "none", path |-> <<>>]

\* the one element of a set of one element
Only(S) == CHOOSE x \in S : TRUE

\* the symbolic links of the filesystem f; every link points to LinkTarget
Links(f) == IF "links" \in DOMAIN f THEN f.links ELSE {}
LinkTarget == <<"t">>

\* path resolution: the entity the path q names once the links on it are followed
Follow(q, f) ==
    LET P == {k \in 1..Len(q) : SubSeq(q, 1, k) \in Links(f)}
    IN  IF P = {} THEN q
        ELSE LET k == CHOOSE k \in P : \A j \in P : k <= j
             IN  LinkTarget \o SubSeq(q, k + 1, Len(q))

\* rmdir and unlink follow the links of the directory part only
FollowDir(q, f) ==
    IF q = <<>> THEN q ELSE Append(Follow(Front(q), f), q[Len(q)])

\* fs.readdir: the entry names of q in directory order
Listing(q, f) ==
    Only({SelectSeq(NameOrder,
                    LAMBDA n : \/ Exists(Append(Follow(q, g), n), g)
                               \/ Append(Follow(q, g), n) \in Links(g)) :
          g \in {f}})

HasEntries(q, f) == Listing(q, f) # <<>>

\* the native call op on path q: "ok" or the error code
NativeResult(op, q, f) ==
    CASE op = "readdir" ->
            IF Follow(q, f) \in f.dirs THEN "ok"
            ELSE IF Follow(q, f) \in f.files THEN "ENOTDIR" ELSE "ENOENT"
      [] op \in {"stat", "access"} ->
            IF Exists(Follow(q, f), f) THEN "ok" ELSE "ENOENT"
      [] op = "rmdir" ->
            IF FollowDir(q, f) \in f.files \cup Links(f) THEN "ENOTDIR"
            ELSE IF FollowDir(q, f) \notin f.dirs THEN "ENOENT"
            ELSE IF HasEntries(FollowDir(q, f), f) THEN "ENOTEMPTY" ELSE "ok"
      [] op = "unlink" ->
            IF FollowDir(q, f) \in f.dirs THEN "EISDIR"
            ELSE IF FollowDir(q, f) \notin f.files \cup Links(f) THEN "ENOENT"
            ELSE "ok"

NativeEffect(op, q, f) ==
    CASE op = "rmdir" -> [f EXCEPT !.dirs = @ \ {FollowDir(q, f)}]
      [] op = "unlink" ->
            IF FollowDir(q, f) \in Links(f)
            THEN [f EXCEPT !.links = @ \ {FollowDir(q, f)}]
            ELSE [f EXCEPT !.files = @ \ {FollowDir(q, f)}]
      [] OTHER -> f

Do(op, q, fault, s) ==
    Only({[fs |-> IF r = "ok" THEN NativeEffect(op, q, t.fs) ELSE t.fs,
           log |-> Append(t.log, [op |-> op, path |-> q, res |-> r]),
           err |-> IF r = "ok" THEN "none" ELSE r] :
          <<t, r>> \in {<<t, IF fault = [op |-> op, path |-> q] THEN "EACCES"
                             ELSE NativeResult(op, q, t.fs)>> : t \in {s}}})

\* result.map(file => join(src, file))
JoinAll(src, names) == [i \in 1..Len(names) |-> Append(src, names[i])]

\* File.stat(...).isDirectory(): stat follows links
IsDirectory(q, f) == \E g \in {f} : Follow(q, g) \in g.dirs

\* File.removeFileOrDir({ src, mode, sync: true }): accessSync, then
\* rmdirSync or unlinkSync, in one try block: [code, s]
removeSync(q, mode, fault, s) ==
    LET s1 == Do("access", q, fault, s)
        s2 == IF s1.err # "none" THEN s1
              ELSE Do(IF mode = DIR THEN "rmdir" ELSE "unlink", q, fault, s1)
    IN  [code |-> IF s2.err = "none" THEN SUCCESS ELSE ERROR, s |-> s2]

\* the blocking branch of rimraf (file.js:1598-1634): [code, s]
RECURSIVE rimrafSync(_, _, _)
RECURSIVE rimrafSyncNext(_, _, _, _)
rimrafSync(src, fault, s) ==
    LET s1 == Do("readdir", src, fault, s)
    IN  IF s1.err # "none" THEN [code |-> ERROR, s |-> s1]
        ELSE rimrafSyncNext(src, JoinAll(src, Listing(src, s1.fs)), fault, s1)

\* const next = () => { let path = queue.shift(); ... }  (file.js:1604-1625)
rimrafSyncNext(src, queue, fault, s) ==
    IF queue = <<>> THEN removeSync(src, DIR, fault, s)
    ELSE LET path == Head(queue)
             s1 == Do("stat", path, fault, s)
         IN  IF s1.err # "none" THEN [code |-> ERROR, s |-> s1]
             ELSE LET r == IF IsDirectory(path, s1.fs)
                           THEN rimrafSync(path, fault, s1)
                           ELSE removeSync(path, FILE, fault, s1)
                  IN  IF r.code # ERROR
                      THEN rimrafSyncNext(src, Tail(queue), fault, r.s)
                      ELSE r

(* The non-blocking branch (file.js:1636-1688).  stack holds one frame     *)
(* [src, queue] per rimraf call in progress, the outermost first; the      *)
(* onRemove of the outermost frame is the caller's callback cb, that of a  *)
(* nested frame the closure of file.js:1654-1657.  Every operator returns  *)
(* [stack, c].                                                             *)

RmIssue(c, op, path, k) ==
    [Issue(c) EXCEPT !.pend = @ \cup {[op |-> op, path |-> path, k |-> k]}]

\* File.rimraf({ src, onRemove }): File.readFileOrDir({ src, mode: DIR, onRead })
rimrafAsync(src, stack, c) ==
    [stack |-> Append(stack, [src |-> src, queue |-> <<>>]),
     c |-> RmIssue(c, "readdir", src, "readdir")]

\* const next = () => { let path = queue.shift(); ... }  (file.js:1642-1682)
rimrafNext(stack, c) ==
    LET top == stack[Len(stack)]
    IN  IF top.queue # <<>>
        THEN [stack |-> [stack EXCEPT ![Len(stack)].queue = Tail(@)],
              c |-> RmIssue(c, "stat", Head(top.queue), "stat")]
        ELSE [stack |-> stack, c |-> RmIssue(c, "access", top.src, "accessDir")]

\* onRemove that drops a failure instead of handing it on
rimrafOnRemove_DropsError(stack, status, payload, cb, c) ==
    IF status # SUCCESS THEN [stack |-> <<>>, c |-> c]
    ELSE IF Len(stack) = 1
    THEN [stack |-> <<>>, c |-> handleSuccess(payload, cb, c)]
    ELSE rimrafNext(Front(stack), c)

\* the onRemove of the innermost frame is invoked with (status, payload)
RECURSIVE rimrafOnRemove(_, _, _, _, _)
rimrafOnRemove(stack, status, payload, cb, c) ==
    IF Len(stack) = 1
    THEN [stack |-> <<>>,
          c |-> IF status = SUCCESS THEN handleSuccess(payload, cb, c)
                ELSE handleError(payload, cb, c)]
    ELSE LET outer == Front(stack)
         IN  IF status = SUCCESS THEN rimrafNext(outer, c)
             ELSE rimrafOnRemove(outer, ERROR, payload, cb, c)

\* the closure of the outstanding native call n, run when the call ended
\* with s.err on the filesystem s.fs
rimrafClosure(n, stack, cb, c, s) ==
    LET failed == s.err # "none"
    IN  CASE n.k = "readdir" ->
                IF failed THEN rimrafOnRemove(stack, ERROR, "null", cb, c)
                ELSE LET queue == JoinAll(n.path, Listing(n.path, s.fs))
                         st == [stack EXCEPT ![Len(stack)].queue = queue]
                     IN  IF Len(queue) = 0
                         THEN rimrafOnRemove(st, SUCCESS, "null", cb, c)
                         ELSE rimrafNext(st, c)
          [] n.k = "stat" ->
                IF failed THEN rimrafOnRemove(stack, ERROR, s.err, cb, c)
                ELSE IF IsDirectory(n.path, s.fs) THEN rimrafAsync(n.path, stack, c)
                ELSE [stack |-> stack, c |-> RmIssue(c, "access", n.path, "accessFile")]
          [] n.k = "accessFile" ->
                IF failed THEN rimrafOnRemove(stack, ERROR, s.err, cb, c)
                ELSE [stack |-> stack, c |-> RmIssue(c, "unlink", n.path, "unlink")]
          [] n.k = "unlink" ->
                IF failed THEN rimrafOnRemove(stack, ERROR, s.err, cb, c)
                ELSE rimrafNext(stack, c)
          [] n.k = "accessDir" ->
                IF failed THEN rimrafOnRemove(stack, ERROR, s.err, cb, c)
                ELSE [stack |-> stack, c |-> RmIssue(c, "rmdir", n.path, "rmdir")]
          [] n.k = "rmdir" ->
                IF failed THEN rimrafOnRemove(stack, ERROR, s.err, cb, c)
                ELSE rimrafOnRemove(stack, SUCCESS, "SUCCESS", cb, c)

-----------------------------------------------------------------------------
(* SpecRimraf: one rimraf call on the directory /d of a tree with at most  *)
(* MaxEntries entries below /d (or on a /d that is a plain file, or        *)
(* missing).                                                               *)

MaxEntries == 3

RmRoot == <<"d">>

\* the trees with one more entry than a tree of T, added below RmRoot
Grow(T) ==
    {[t EXCEPT ![kind] = @ \cup {Append(par, n)}] :
        <<t, par, n, kind>> \in
            {x \in T \X SeqsUpTo(Names \cup {"b", "d"}, MaxEntries) \X {"a", "b"}
                        \X {"dirs", "files"} :
                /\ x[2] \in x[1].dirs \ {<<>>}
                /\ ~Exists(Append(x[2], x[3]), x[1])}}

RECURSIVE TreesUpTo(_)
TreesUpTo(n) ==
    IF n = 0 THEN {[dirs |-> {<<>>, RmRoot}, files |-> {}, cwd |-> <<>>]}
    ELSE LET T == TreesUpTo(n - 1) IN T \cup Grow(T)

Trees ==
    TreesUpTo(MaxEntries) \cup
        {[dirs |-> {<<>>}, files |-> {RmRoot}, cwd |-> <<>>],
         [dirs |-> {<<>>}, files |-> {}, cwd |-> <<>>]}

\* the native calls a fault can name on the tree f
Faults(f) ==
    {NoFault}
        \cup {[op |-> op, path |-> q] : op \in {"readdir", "rmdir"}, q \in f.dirs \ {<<>>}}
        \cup {[op |-> "unlink", path |-> q] : q \in f.files}
        \cup {[op |-> op, path |-> q] :
                op \in {"stat", "access"}, q \in (f.dirs \cup f.files) \ {<<>>}}

RmInit == [op |-> "none", c |-> Ctx("null")]

InitRimraf ==
    /\ EX = "null"
    /\ fs \in Trees
    /\ pc = PcInit
    /\ mk = Idle
    /\ rm = RmInit
    /\ fh = Idle
    /\ fis = Idle
    /\ fw = Idle
    /\ fc = Idle

\* the caller invokes File.rimraf({ src: "/d", onRemove: cb, sync })
RimrafCall(isSync, cb, fault) ==
    /\ rm.op = "none"
    /\ fault \in Faults(fs)
    /\ LET a == [argNull |-> FALSE, sync |-> isSync, cb |-> cb]
           s0 == [fs |-> fs, log |-> <<>>, err |-> "none"]
           base == [op |-> "rimraf", a |-> a, fault |-> fault, fs0 |-> fs]
       IN  IF isSync THEN
               LET r == rimrafSync(RmRoot, fault, s0)
                   c0 == [Ctx(EX) EXCEPT !.natives = Len(r.s.log)]
                   c == Return(IF r.code = ERROR THEN handleError(r.s.err, NOCB, c0) ELSE c0,
                               Num(r.code))
               IN  /\ rm' = base @@ [stack |-> <<>>, c |-> c, log |-> r.s.log,
                                     err |-> r.s.err]
                   /\ EX' = c.EX
                   /\ fs' = r.s.fs
           ELSE
               LET r == rimrafAsync(RmRoot, <<>>, Ctx(EX))
               IN  /\ rm' = base @@ [stack |-> r.stack, c |-> r.c, log |-> <<>>,
                                     err |-> "none"]
                   /\ EX' = r.c.EX
                   /\ fs' = fs
    /\ UNCHANGED <<pc, mk, fh, fis, fw, fc>>

\* the caller invokes File.rimraf({ src: null, onRemove: cb, sync })
RimrafCallNull(isSync, cb) ==
    /\ rm.op = "none"
    /\ LET a == [argNull |-> TRUE, sync |-> isSync, cb |-> cb]
           c == handleError("FileNotFoundException", cb, Ctx(EX))
       IN  /\ rm' = [op |-> "rimraf", a |-> a, fault |-> NoFault, fs0 |-> fs,
                     stack |-> <<>>, c |-> c, log |-> <<>>, err |-> "none"]
           /\ EX' = c.EX
    /\ UNCHANGED <<fs, pc, mk, fh, fis, fw, fc>>

\* an outstanding native call of the rimraf in progress ends and the event
\* loop runs its closure
RimrafStep ==
    /\ rm.op = "rimraf"
    /\ \E n \in rm.c.pend :
        LET s1 == Do(n.op, n.path, rm.fault, [fs |-> fs, log |-> rm.log, err |-> "none"])
            c1 == [rm.c EXCEPT !.pend = @ \ {n}]
            r == rimrafClosure(n, rm.stack, rm.a.cb, c1, s1)
        IN  /\ rm' = [rm EXCEPT !.stack = r.stack, !.c = r.c, !.log = s1.log,
                                !.err = IF @ = "none" THEN s1.err ELSE @]
            /\ EX' = r.c.EX
            /\ fs' = s1.fs
    /\ UNCHANGED <<pc, mk, fh, fis, fw, fc>>

NextRimraf ==
    \/ \E isSync \in BOOLEAN, cb \in {NOCB, USERCB}, fault \in Faults(fs) :
          RimrafCall(isSync, cb, fault)
    \/ \E isSync \in BOOLEAN, cb \in {NOCB, USERCB} : RimrafCallNull(isSync, cb)
    \/ RimrafStep

SpecRimraf == InitRimraf /\ [][NextRimraf]_vars

RimrafDone == rm.op = "rimraf" /\ ~rm.a.argNull /\ rm.c.pend = {}

-----------------------------------------------------------------------------
(* Claims about the primitive operation set (checked under SpecPrim).      *)

MissingArgCauses ==
    {"SourceNotFoundException", "FileNotFoundException", "FdNotFoundException",
     "StatNotFoundException", "PathNotFoundException", "PrefixNotFoundException"}

\* C1: a primitive invoked asynchronously (sync=false) with a completion
\* callback invokes that callback exactly once: never twice, and, once its
\* native call has ended, once with (SUCCESS, payload) when the native call
\* succeeded and with (ERROR, cause) when it failed.
C1_AsyncCallbackExactlyOnce ==
    (pc.op # "none" /\ ~pc.a.sync /\ pc.a.cb = USERCB /\ ~pc.a.argNull) =>
        /\ Len(pc.c.cbs) <= 1
        /\ pc.nat = "ok" =>
            /\ Len(pc.c.cbs) = 1
            /\ pc.c.cbs[1].status = SUCCESS
        /\ pc.nat = "fail" =>
            pc.c.cbs = <<[status |-> ERROR, payload |-> NativeError]>>

\* C4: a primitive invoked synchronously with no callback whose native call
\* fails returns the ERROR sentinel and stores the failure cause in the
\* last-error slot.
C4_SyncFailureReturnsERROR ==
    (pc.op # "none" /\ pc.a.sync /\ pc.a.cb = NOCB /\ pc.nat = "fail") =>
        /\ IsERROR(pc.c.ret)
        /\ EX = NativeError

\* C5: a primitive called without its required argument performs no native
\* call, does not throw, and reports a descriptive failure: (ERROR, cause) to
\* the callback when one is given, otherwise an ERROR return value with the
\* cause in the last-error slot.
C5_MissingArgumentReported ==
    (pc.op # "none" /\ pc.a.argNull) =>
        /\ pc.c.natives = 0
        /\ pc.c.threw = "none"
        /\ pc.a.cb = USERCB =>
            /\ Len(pc.c.cbs) = 1
            /\ pc.c.cbs[1].status = ERROR
            /\ pc.c.cbs[1].payload \in MissingArgCauses
        /\ pc.a.cb = NOCB =>
            /\ IsERROR(pc.c.ret)
            /\ EX \in MissingArgCauses

\* C11: a primitive called with sync = true and a callback invokes that
\* callback exactly once when its blocking native call has ended: with
\* SUCCESS when the native call succeeded, with (ERROR, cause) when it
\* failed.
C11_SyncCallbackExactlyOnce ==
    (pc.op # "none" /\ pc.a.sync /\ pc.a.cb = USERCB /\ pc.nat \in {"ok", "fail"}) =>
        /\ Len(pc.c.cbs) = 1
        /\ pc.nat = "ok" => pc.c.cbs[1].status = SUCCESS
        /\ pc.nat = "fail" =>
            pc.c.cbs[1] = [status |-> ERROR, payload |-> NativeError]

\* C12: the last-error slot changes only in the step of a synchronous call
\* made without a callback: no completion of an asynchronous operation and
\* no call that was given a callback modifies it.
C12_LastErrorOnlySyncNoCallback ==
    [][EX' # EX => (pc.c.pend = {} /\ pc'.a.sync /\ pc'.a.cb = NOCB)]_vars

\* C14: an asynchronous call never invokes the completion callback before
\* it returns: when the call step of a non-blocking call ends, the callback
\* has not been invoked yet, whatever the outcome (missing argument
\* included).
C14_AsyncCallbackNeverInCall ==
    [][(pc.c.pend = {} /\ pc' # pc /\ ~pc'.a.sync) => pc'.c.cbs = <<>>]_vars

-----------------------------------------------------------------------------
(* Claims about mkdirs (checked under SpecMkdirs).                         *)

\* the caller of the call has a channel on which a result can reach it
MkHasChannel == mk.a.sync \/ mk.a.cb = USERCB

\* C3: after mkdirs(p) has reported success, for a relative or an absolute
\* p, a directory exists at exactly the path p denotes and at every
\* ancestor of it.
C3_MkdirsCreatesTheChain ==
    (MkdirsDone /\ Told(mk) = "SUCCESS") =>
        \A q \in Prefixes(Resolve(mk.src, fs)) : q \in fs.dirs

\* C6: an asynchronous mkdirs invokes its composite callback exactly once:
\* never twice and, when no native call is outstanding any more, once, with
\* SUCCESS if every step succeeded and with (ERROR, cause) of the failing
\* create step otherwise.
C6_MkdirsCallbackExactlyOnce ==
    (mk.op = "mkdirs" /\ ~mk.a.argNull /\ ~mk.a.sync /\ mk.a.cb = USERCB) =>
        /\ Len(mk.c.cbs) <= 1
        /\ mk.c.pend = {} =>
            /\ Len(mk.c.cbs) = 1
            /\ mk.err = "none" => mk.c.cbs[1].status = SUCCESS
            /\ mk.err # "none" =>
                mk.c.cbs[1] = [status |-> ERROR, payload |-> mk.err]

\* C8: mkdirs stops at the first failing create step: the failing create is
\* the last native call it issues, the caller is told ERROR, and every
\* directory the call created before is still there; in both modes.
C8_MkdirsStopsAtFirstFailure ==
    (mk.op = "mkdirs" /\ ~mk.a.argNull) =>
        /\ \A i \in 1..Len(mk.log) :
            /\ (mk.log[i].op = "mkdir" /\ mk.log[i].res # "ok") =>
                  (i = Len(mk.log) /\ mk.c.pend = {})
            /\ (mk.log[i].op = "mkdir" /\ mk.log[i].res = "ok") =>
                  mk.log[i].path \in fs.dirs
        /\ (mk.c.pend = {} /\ mk.err # "none" /\ MkHasChannel) =>
              Told(mk) = "ERROR"

-----------------------------------------------------------------------------
(* Claims about rimraf (checked under SpecRimraf).                         *)

\* what the caller of the rimraf call has been told, and the cause it sees:
\* the blocking form returns the status and leaves the cause in the
\* last-error slot, the non-blocking form hands both to the callback (the
\* cause goes to the last-error slot when there is no callback)
RmTold ==
    IF rm.a.sync THEN (IF IsERROR(rm.c.ret) THEN "ERROR" ELSE "SUCCESS")
    ELSE IF rm.a.cb = NOCB \/ rm.c.cbs = <<>> THEN "none"
    ELSE IF rm.c.cbs[Len(rm.c.cbs)].status = SUCCESS THEN "SUCCESS" ELSE "ERROR"

RmCause ==
    IF ~rm.a.sync /\ rm.a.cb = USERCB /\ rm.c.cbs # <<>>
    THEN rm.c.cbs[Len(rm.c.cbs)].payload
    ELSE EX

RmHasChannel == rm.a.sync \/ rm.a.cb = USERCB

IsPrefix(q, r) == Len(q) <= Len(r) /\ SubSeq(r, 1, Len(q)) = q

\* C2: a rimraf(d) on a directory d that has reported success has removed d
\* and every file and directory below it, so that d no longer exists; in the
\* synchronous and in the asynchronous mode.
C2_RimrafRemovesEverything ==
    (RimrafDone /\ RmRoot \in rm.fs0.dirs /\ RmTold = "SUCCESS") =>
        \A q \in rm.fs0.dirs \cup rm.fs0.files : IsPrefix(RmRoot, q) => ~Exists(q, fs)

\* C7: when a step of rimraf fails, the failing native call is the last one
\* the run issues, the caller is told ERROR with the cause of that native
\* call (never null, never another error), and what was removed before
\* stays removed.
C7_RimrafSurfacesTheCause ==
    (rm.op = "rimraf" /\ ~rm.a.argNull) =>
        /\ \A i \in 1..Len(rm.log) :
            /\ rm.log[i].res # "ok" => (i = Len(rm.log) /\ rm.c.pend = {})
            /\ (rm.log[i].op \in {"unlink", "rmdir"} /\ rm.log[i].res = "ok") =>
                  ~Exists(rm.log[i].path, fs)
        /\ (rm.c.pend = {} /\ rm.err # "none" /\ RmHasChannel) =>
            /\ RmTold = "ERROR"
            /\ RmCause = rm.err

Removals(log) == SelectSeq(log, LAMBDA e : e.op \in {"stat", "unlink", "rmdir"})

\* C10: on the same initial tree and the same native failure, the
\* asynchronous rimraf issues the same sequence of native stat/unlink/rmdir
\* calls as the synchronous one, stops at the same failing step, and ends
\* with the same filesystem and the same SUCCESS/ERROR status.
C10_RimrafSyncAsyncAgree ==
    (RimrafDone /\ ~rm.a.sync) =>
        LET r == rimrafSync(RmRoot, rm.fault, [fs |-> rm.fs0, log |-> <<>>, err |-> "none"])
        IN  /\ Removals(rm.log) = Removals(r.s.log)
            /\ fs = r.s.fs
            /\ rm.a.cb = USERCB =>
                  RmTold = (IF r.code = ERROR THEN "ERROR" ELSE "SUCCESS")

-----------------------------------------------------------------------------
(* A File handle.  The handle has a path and a tracked descriptor fd       *)
(* (0 = not open).  The entity at the path is kind ("none", "file" or      *)
(* "dir") with the permissions perms of the calling process.  live is the  *)
(* set of descriptors opened through the handle and not yet closed by a    *)
(* native close, next the number the next native open returns.  A method   *)
(* called without a callback runs the blocking form, with a callback the   *)
(* non-blocking form.  The record h is the call context of the prim-       *)
(* itives extended with the handle: k names the closure that the           *)
(* outstanding native call will invoke, arg the mode, flags and descriptor *)
(* of that native call, ucbs the invocations of the caller's callback.     *)

MaxFds == 2
FirstFd == 3

R_OK == {"r"}
W_OK == {"w"}
X_OK == {"x"}
F_OK == {}

Bool(b) == [t |-> "bool", v |-> IF b THEN 1 ELSE 0]

\* JavaScript truthiness of a return value: if (this.isFile()) ...
Truthy(r) == (r.t = "bool" /\ r.v = 1) \/ (r.t = "int" /\ r.v # 0) \/ r.t = "obj"

PA(isSync, cb) == [argNull |-> FALSE, sync |-> isSync, cb |-> cb]

Arg(mode, flags, fd) == [mode |-> mode, flags |-> flags, fd |-> fd]
NoArg == Arg(F_OK, "r+", 0)

\* the permissions an open with these flags needs
FlagPerms(flags) == IF flags = "r" THEN R_OK ELSE R_OK \cup W_OK

\* the outcome of a native call on the entity at the handle's path; fault
\* names the native call that the system fails for a reason of its own
NativeOk(op, h, arg, fault) ==
    CASE op = "access" -> h.kind # "none" /\ arg.mode \subseteq h.perms
      [] op = "stat" -> h.kind # "none"
      [] op = "mkdir" -> h.kind = "none" /\ fault # "mkdir"
      [] op = "openFd" ->
            /\ fault # "openFd"
            /\ h.next < FirstFd + MaxFds
            /\ IF arg.flags = "wx+" THEN h.kind = "none"
               ELSE h.kind = "file" /\ FlagPerms(arg.flags) \subseteq h.perms
      [] op = "closeFd" -> fault # "closeFd" /\ arg.fd \in h.live
      [] OTHER -> fault # op /\ arg.fd \in h.live

\* the effect of a native call that succeeded
NativeApply(op, h, arg) ==
    CASE op = "mkdir" -> [h EXCEPT !.kind = "dir", !.perms = R_OK \cup W_OK \cup X_OK]
      [] op = "openFd" ->
            [h EXCEPT !.live = @ \cup {h.next}, !.next = @ + 1,
                      !.kind = "file",
                      !.perms = IF h.kind = "none" THEN R_OK \cup W_OK ELSE @]
      [] op = "closeFd" -> [h EXCEPT !.live = @ \ {arg.fd}]
      [] OTHER -> h

\* the primitives the handle methods call
HandlePrim(op, a, ok, c) ==
    CASE op = "access" -> access(a, ok, c)
      [] op = "stat" -> stat(a, ok, c)
      [] op = "mkdir" -> mkdir(a, ok, c)
      [] op = "openFd" -> openFd(a, ok, c)
      [] op = "closeFd" -> closeFd(a, ok, c)
      [] op = "readFd" -> readFd(a, ok, c)
      [] op = "writeFd" -> writeFd(a, ok, c)

\* a blocking native call has ended with ok and the primitive has returned
\* in context r: the effect of the call on the entity and the descriptors
Effect(op, ok, r, arg) == IF ok THEN NativeApply(op, r, arg) ELSE r

BlockingPrim(op, ok, h, arg) ==
    Effect(op, ok, HandlePrim(op, PA(TRUE, NOCB), ok, h), arg)

\* File.<op>({ src, sync: true }): the blocking form of a primitive, without
\* callback
HSync(op, h, arg, fault) ==
    BlockingPrim(op, NativeOk(op, h, arg, fault), h, arg)

\* File.<op>({ src, on...: closure }): the non-blocking form of a
\* primitive; k is the closure
HAsync(op, h, k, arg) ==
    [HandlePrim(op, PA(FALSE, USERCB), TRUE, h) EXCEPT !.k = k, !.arg = arg]

\* the caller's callback is invoked
UserCb(h, status, payload) ==
    [h EXCEPT !.ucbs = Append(@, [status |-> status, payload |-> payload])]

\* EX = new ReferenceError(name)
SetEX(h, name) == [h EXCEPT !.EX = name, !.wrote = TRUE]

\* EX = EX || new ReferenceError(name)
OrEX(h, name) == IF h.EX = "null" THEN SetEX(h, name) ELSE h

\* exists / canRead / canWrite / canExecute: File.access({ src, mode, sync: true })
\* or File.access({ src, mode, onExists: onAccess }).  The blocking branch of
\* File.access calls accessSync(src) without the mode (the native default,
\* F_OK); the non-blocking branch calls access(src, mode, ...).
accessMode(isSync, mode) == IF isSync THEN F_OK ELSE mode

accessVia(h, mode, cb, fault) ==
    IF cb = NOCB
    THEN HSync("access", h, Arg(accessMode(TRUE, mode), "r+", 0), fault)
    ELSE HAsync("access", h, "user", Arg(accessMode(FALSE, mode), "r+", 0))

exists(h, cb, fault) == accessVia(h, R_OK \cup W_OK, cb, fault)
canRead(h, cb, fault) == accessVia(h, R_OK, cb, fault)
canWrite(h, cb, fault) == accessVia(h, W_OK, cb, fault)
canExecute(h, cb, fault) == accessVia(h, X_OK, cb, fault)

\* blocking isFile / isDir: return stats !== ERROR ? stats.isFile() : stats
typeOf(r, isType) == IF IsERROR(r.ret) THEN r ELSE Return(r, Bool(isType))

typeSync(h, want) == typeOf(HSync("stat", h, NoArg, "none"), h.kind = want)

isFile(h, cb, fault) ==
    IF cb = NOCB THEN typeSync(h, "file") ELSE HAsync("stat", h, "isFile", NoArg)

isDir(h, cb, fault) ==
    IF cb = NOCB THEN typeSync(h, "dir") ELSE HAsync("stat", h, "isDir", NoArg)

\* the onStat closure of isFile / isDir: what it hands to onAccess
typeClosure(h, want, status, payload) ==
    IF status = SUCCESS
    THEN IF h.kind = want
         THEN [code |-> SUCCESS, reason |-> "undefined"]
         ELSE [code |-> ERROR,
               reason |-> IF want = "file" THEN "NotFileException"
                          ELSE "NotDirectoryException"]
    ELSE [code |-> status, reason |-> payload]

\* return ERROR after EX = EX || new ReferenceError('FileExistException')
failExist(r) == Return(OrEX(r, "FileExistException"), Num(ERROR))

\* createDir, callback-less, after this.exists() has returned in context r
createDirProbed(r, fault) ==
    IF IsERROR(r.ret) THEN HSync("mkdir", r, NoArg, fault) ELSE failExist(r)

createDir(h, cb, fault) ==
    IF cb = NOCB THEN createDirProbed(exists(h, NOCB, fault), fault)
    ELSE HAsync("access", h, "createDir.exists", Arg(R_OK \cup W_OK, "r+", 0))

\* createFile, callback-less, after File.openFd has returned in context r;
\* nfd is the descriptor a successful open has returned
createFileOpened(r, nfd, fault) ==
    IF ~IsERROR(r.ret) THEN HSync("closeFd", r, Arg(F_OK, "wx+", nfd), fault)
    ELSE failExist(r)

\* createFile, callback-less, after this.exists() has returned in context r
createFileProbed(r, fault) ==
    IF IsERROR(r.ret)
    THEN createFileOpened(HSync("openFd", r, Arg(F_OK, "wx+", 0), fault), r.next, fault)
    ELSE failExist(r)

createFile(h, cb, fault) ==
    IF cb = NOCB THEN createFileProbed(exists(h, NOCB, fault), fault)
    ELSE HAsync("access", h, "createFile.exists", Arg(R_OK \cup W_OK, "r+", 0))

\* open, callback-less: this.fd = File.openFd(...) (the descriptor nfd, or
\* ERROR) has been assigned from the context r
openAssigned(r, ok, nfd) ==
    IF ok THEN Return([r EXCEPT !.fd = nfd, !.opened = TRUE], Num(nfd))
    ELSE failExist([r EXCEPT !.fd = ERROR])

openOpened(r, nfd) == openAssigned(r, ~IsERROR(r.ret), nfd)

\* open, callback-less, after this.isFile() has returned in context r
openTyped(r, flags, fault) ==
    IF Truthy(r.ret)
    THEN openOpened(HSync("openFd", r, Arg(F_OK, flags, 0), fault), r.next)
    ELSE failExist(r)

open(h, flags, cb, fault) ==
    IF cb = NOCB THEN openTyped(isFile(h, NOCB, fault), flags, fault)
    ELSE HAsync("stat", h, "open.isFile", Arg(F_OK, flags, 0))

\* close on a handle that is not open
closeNotOpen_KeepsOldCause(h, cb) ==
    IF cb = NOCB THEN Return(OrEX(h, "FileNotOpenedException"), Num(ERROR))
    ELSE UserCb(h, ERROR, h.EX)

closeNotOpen(h, cb) ==
    IF cb = NOCB THEN Return(SetEX(h, "FileNotOpenedException"), Num(ERROR))
    ELSE UserCb(h, ERROR, "FileNotOpenedException")

\* close, callback-less, after File.closeFd has returned in context r:
\* this.fd = 0, whatever the code
closeClosed(r) ==
    IF ~IsERROR(r.ret) THEN [r EXCEPT !.fd = 0, !.opened = FALSE]
    ELSE failExist([r EXCEPT !.fd = 0])

close(h, cb, fault) ==
    IF h.fd = 0 THEN closeNotOpen(h, cb)
    ELSE IF cb = NOCB
    THEN closeClosed(HSync("closeFd", h, Arg(F_OK, "r+", h.fd), fault))
    ELSE HAsync("closeFd", h, "close.close", Arg(F_OK, "r+", h.fd))

\* read / write, callback-less, after File.openFd has returned in context r
transferOpened(op, r, nfd, fault) ==
    IF ~IsERROR(r.ret) THEN HSync(op, r, Arg(F_OK, "r+", nfd), fault)
    ELSE failExist(r)

\* read / write, callback-less, after this.isFile() has returned in context r
transferTyped(op, r, fault) ==
    IF IsERROR(r.ret)
    THEN transferOpened(op, HSync("openFd", r, Arg(F_OK, "r+", 0), fault), r.next, fault)
    ELSE failExist(r)

\* read / write: positional transfer on a descriptor opened for the call
transfer(op, h, cb, fault) ==
    IF cb = NOCB THEN transferTyped(op, isFile(h, NOCB, fault), fault)
    ELSE HAsync("stat", h, IF op = "readFd" THEN "read.isFile" ELSE "write.isFile",
                Arg(F_OK, "r+", 0))

read(h, cb, fault) == transfer("readFd", h, cb, fault)
write(h, cb, fault) == transfer("writeFd", h, cb, fault)

\* getInputStream, callback-less: return code !== ERROR ? createReadStream(...) : code
streamOf(r) == IF ~IsERROR(r.ret) THEN Return(r, OBJ) ELSE r

\* getInputStream({ autoClose, onAccess }): with autoClose the stream opens
\* and closes a descriptor of its own; without, it reads this.open()'s
getInputStream(h, autoClose, cb, fault) ==
    IF autoClose THEN
        IF cb = NOCB THEN streamOf(isFile(h, NOCB, fault))
        ELSE HAsync("stat", h, "stream.isFile", NoArg)
    ELSE
        IF cb = NOCB THEN streamOf(open(h, "r", NOCB, fault))
        ELSE open(h, "r", cb, fault)

\* the closure k runs with (status, payload); nfd is the descriptor of a
\* native open that has just succeeded
Closure(k, status, payload, h, nfd) ==
    LET f == typeClosure(h, "file", status, payload)
        d == typeClosure(h, "dir", status, payload)
    IN  CASE k = "user" -> UserCb(h, status, payload)
          [] k = "isFile" -> UserCb(h, f.code, f.reason)
          [] k = "isDir" -> UserCb(h, d.code, d.reason)
          [] k = "createDir.exists" ->
                IF status = ERROR THEN HAsync("mkdir", h, "user", NoArg)
                ELSE UserCb(h, ERROR, "FileExistException")
          [] k = "createFile.exists" ->
                IF status = ERROR
                THEN HAsync("openFd", h, "createFile.open", Arg(F_OK, "wx+", 0))
                ELSE UserCb(h, ERROR, "FileExistException")
          [] k = "createFile.open" ->
                IF status = SUCCESS
                THEN HAsync("closeFd", h, "user", Arg(F_OK, "wx+", nfd))
                ELSE UserCb(h, status, payload)
          [] k = "open.isFile" ->
                IF f.code # ERROR
                THEN HAsync("openFd", h, "open.open", h.arg)
                ELSE UserCb(h, ERROR, f.reason)
          [] k = "open.open" ->
                IF status # ERROR
                THEN UserCb([h EXCEPT !.fd = nfd, !.opened = TRUE], status, "fd")
                ELSE UserCb(h, status, payload)
          [] k = "close.close" ->
                UserCb([h EXCEPT !.fd = 0,
                                 !.opened = IF status = SUCCESS THEN FALSE ELSE @],
                       status, payload)
          [] k \in {"read.isFile", "write.isFile"} ->
                IF f.code # ERROR
                THEN HAsync("openFd", h,
                            IF k = "read.isFile" THEN "read.open" ELSE "write.open",
                            Arg(F_OK, "r+", 0))
                ELSE UserCb(h, ERROR, f.reason)
          [] k \in {"read.open", "write.open"} ->
                IF status = SUCCESS
                THEN IF k = "read.open"
                     THEN HAsync("readFd", h, "user", Arg(F_OK, "r+", nfd))
                     ELSE HAsync("writeFd", h, "user", Arg(F_OK, "r+", nfd))
                ELSE UserCb(h, status, payload)
          [] k = "stream.isFile" ->
                UserCb(h, f.code, IF f.code = SUCCESS THEN "stream" ELSE f.reason)

Methods ==
    {"exists", "canRead", "canWrite", "canExecute", "isFile", "isDir",
     "createDir", "createFile", "open", "close", "read", "write",
     "getInputStream", "getInputStreamKeep"}

CallMethod(op, h, cb, fault) ==
    CASE op = "exists" -> exists(h, cb, fault)
      [] op = "canRead" -> canRead(h, cb, fault)
      [] op = "canWrite" -> canWrite(h, cb, fault)
      [] op = "canExecute" -> canExecute(h, cb, fault)
      [] op = "isFile" -> isFile(h, cb, fault)
      [] op = "isDir" -> isDir(h, cb, fault)
      [] op = "createDir" -> createDir(h, cb, fault)
      [] op = "createFile" -> createFile(h, cb, fault)
      [] op = "open" -> open(h, "r+", cb, fault)
      [] op = "close" -> close(h, cb, fault)
      [] op = "read" -> read(h, cb, fault)
      [] op = "write" -> write(h, cb, fault)
      [] op = "getInputStream" -> getInputStream(h, TRUE, cb, fault)
      [] op = "getInputStreamKeep" -> getInputStream(h, FALSE, cb, fault)

-----------------------------------------------------------------------------
(* SpecHandle: one method call of one File handle at a time; the event     *)
(* loop runs the closure of the outstanding native call.                   *)

PermSets == {{}, R_OK, R_OK \cup W_OK, R_OK \cup W_OK \cup X_OK}

\* new File({ path }): setup sets this.fd = 0
HandleInit(kind, perms) ==
    [EX |-> "null", cbs |-> <<>>, threw |-> "none", pend |-> {}, natives |-> 0,
     ret |-> UNDEF, wrote |-> FALSE,
     op |-> "none", twice |-> FALSE, cb |-> NOCB,
     kind |-> kind, perms |-> perms,
     fd |-> 0, fd0 |-> 0, live |-> {}, next |-> FirstFd, opened |-> FALSE,
     ucbs |-> <<>>, k |-> "none", arg |-> NoArg]

InitHandle ==
    /\ EX = "null"
    /\ fs = NoFs
    /\ pc = PcInit
    /\ mk = Idle
    /\ rm = Idle
    /\ fis = Idle
    /\ fw = Idle
    /\ fc = Idle
    /\ \E kind \in {"none", "file", "dir"}, perms \in PermSets :
          /\ kind = "none" => perms = {}
          /\ fh = HandleInit(kind, perms)

\* the context of a new call on the handle
NewCall(h, op, cb) ==
    [h EXCEPT !.op = op, !.cb = cb, !.fd0 = h.fd,
              \* this call and the previous one are both close
              !.twice = (op = "close" /\ h.op = "close"),
              !.cbs = <<>>, !.ucbs = <<>>, !.threw = "none", !.natives = 0,
              !.ret = UNDEF, !.wrote = FALSE, !.k = "none", !.arg = NoArg]

\* the caller invokes handle.<op>(...) without or with a callback
HandleCall(op, cb, fault) ==
    /\ fh.pend = {}
    /\ fh' = CallMethod(op, NewCall(fh, op, cb), cb, fault)
    /\ EX' = fh'.EX
    /\ UNCHANGED <<fs, pc, mk, rm, fis, fw, fc>>

\* the completion closure of the primitive has run in context r: if it
\* has invoked the closure of the handle method, that closure runs
Completed(h, r, nfd) ==
    IF Len(r.cbs) > Len(h.cbs)
    THEN Closure(h.k, r.cbs[Len(r.cbs)].status, r.cbs[Len(r.cbs)].payload, r, nfd)
    ELSE r

NonBlockingPrim(p, ok, h) ==
    Completed(h, Effect(p.op, ok, Complete(p, ok, h), h.arg), h.next)

\* a native call ends and the event loop runs its closure
HandleStep(fault) ==
    /\ \E p \in fh.pend :
        fh' = NonBlockingPrim(p, NativeOk(p.op, fh, fh.arg, IF fault THEN p.op ELSE "none"), fh)
    /\ EX' = fh'.EX
    /\ UNCHANGED <<fs, pc, mk, rm, fis, fw, fc>>

HandleFaults == {"none", "mkdir", "openFd", "closeFd", "readFd", "writeFd"}

NextHandle ==
    \/ \E op \in Methods, cb \in {NOCB, USERCB}, fault \in HandleFaults :
          HandleCall(op, cb, fault)
    \/ \E fault \in BOOLEAN : HandleStep(fault)

SpecHandle == InitHandle /\ [][NextHandle]_vars

HandleQuiet == fh.op # "none" /\ fh.pend = {}

-----------------------------------------------------------------------------
(* Claims about the File handle (checked under SpecHandle).                *)

\* C13: when a blocking, callback-less handle call has returned ERROR, the
\* last-error slot holds a cause that this call stored, not one that an
\* earlier failure left there.
C13_ExceptionIsOfTheFailingCall ==
    (fh.op # "none" /\ fh.cb = NOCB /\ IsERROR(fh.ret)) =>
        (fh.wrote /\ EX # "null")

\* C15: close on a handle that is not open reports ERROR with the
\* file-not-open cause, issues no native call and does not throw, every
\* time: in the callback-less form ERROR is returned and the cause is in
\* the last-error slot, in the callback form the callback gets
\* (ERROR, file-not-open).
C15_CloseNotOpenReported ==
    (fh.op = "close" /\ fh.fd0 = 0) =>
        /\ fh.natives = 0
        /\ fh.threw = "none"
        /\ fh.pend = {}
        /\ fh.fd = 0
        /\ fh.cb = NOCB =>
            /\ IsERROR(fh.ret)
            /\ EX = "FileNotOpenedException"
        /\ fh.cb = USERCB =>
            fh.ucbs = <<[status |-> ERROR, payload |-> "FileNotOpenedException"]>>

\* C15 witness: a second consecutive close, after a failure of another kind
\* had been recorded and a descriptor had been opened, reports file-not-open.
C15_Witness ==
    /\ fh.op = "close" /\ fh.twice /\ fh.fd0 = 0 /\ fh.cb = NOCB
    /\ fh.next > FirstFd
    /\ IsERROR(fh.ret) /\ EX = "FileNotOpenedException"

\* C16: the tracked descriptor is set exactly by a successful open and
\* cleared exactly by a successful close: isOpen() holds if and only if
\* some open has succeeded and no close has succeeded since.
C16_TrackedDescriptor ==
    (fh.op # "none") => ((fh.fd # 0) <=> fh.opened)

\* C17: at most one descriptor opened through the handle is live at any
\* time.
C17_AtMostOneLiveDescriptor ==
    fh.op # "none" => Cardinality(fh.live) <= 1

\* C18: when stat succeeds and the entity has the wrong type, isFile and
\* isDir report ERROR with the type-mismatch cause, without a callback
\* (ERROR returned, the cause in the last-error slot) as with one.
C18_TypeMismatchReported ==
    LET want == IF fh.op = "isFile" THEN "file" ELSE "dir"
        cause == IF fh.op = "isFile" THEN "NotFileException"
                 ELSE "NotDirectoryException"
    IN  (fh.op \in {"isFile", "isDir"} /\ fh.pend = {}
            /\ fh.kind # "none" /\ fh.kind # want) =>
            /\ fh.cb = NOCB => (IsERROR(fh.ret) /\ fh.wrote /\ EX = cause)
            /\ fh.cb = USERCB =>
                fh.ucbs = <<[status |-> ERROR, payload |-> cause]>>

\* the status the blocking form of an access method reports on the state h
SyncStatus(op, h) ==
    LET r == CallMethod(op, NewCall(h, op, NOCB), NOCB, "none")
    IN  IF IsERROR(r.ret) THEN ERROR ELSE SUCCESS

\* C19: on the same path and filesystem state the callback form of exists,
\* canRead, canWrite and canExecute reports the status that the
\* callback-less form reports.
C19_AccessFormsAgree ==
    (fh.op \in {"exists", "canRead", "canWrite", "canExecute"}
        /\ fh.cb = USERCB /\ fh.pend = {}) =>
        /\ Len(fh.ucbs) = 1
        /\ fh.ucbs[1].status = SyncStatus(fh.op, fh)

-----------------------------------------------------------------------------
(* A FileInputStream over a file of size bytes.  buf is the length of the  *)
(* byte buffer, or NoBuf when this.buf is null, filled the number of its   *)
(* leading cells that hold characters of the file (the others are 0); pos, *)
(* count and markPos are the fields of the class.  op, arg and ret are the *)
(* last call, its arguments and its return value, hi the highest buffer    *)
(* index the last read accessed (-1: none), threw the exception the last   *)
(* call or event handler raised, pend the open in progress: after the call *)
(* it waits for the file ("file": length and getInputStream), then for the *)
(* stream's data ("data": the readable / end event).  closed, alloc and    *)
(* mark record the history: close has been called; the buffer has been     *)
(* allocated never, once or again; mark has been called never, or was      *)
(* called at mark.pos with only reads, skips and resets since ("valid"),   *)
(* or with an open or close since ("stale"); mark.moved: a read or skip    *)
(* has moved the position since the mark.                                  *)

MaxSize == 3
NoBuf == -1

Min(a, b) == IF a < b THEN a ELSE b

NoOpen == [stage |-> "none", offset |-> 0, length |-> 0, blocking |-> TRUE]

\* the byte at index i of the file: letters at the even indices, a byte
\* that is no UTF-8 sequence of its own at the odd ones
FileByte(i) == IF i % 2 = 0 THEN 65 + i ELSE 200

\* getInputStream's default encoding 'utf8' and chunk.charCodeAt(i): a byte
\* below 128 is its own character, a lone byte above decodes to U+FFFD
CharCode(b) == IF b < 128 THEN b ELSE 65533

\* this.buf[i] & 0xff
BufByte(s, i) == IF i < s.filled THEN CharCode(FileByte(i)) % 256 ELSE 0

\* constructor: this.buf = null; this.pos = this.count = this.markPos = 0
FisInit(size, present) ==
    [buf |-> NoBuf, filled |-> 0, pos |-> 0, count |-> 0, markPos |-> 0,
     size |-> size, present |-> present,
     op |-> "none", arg |-> <<>>, ret |-> UNDEF, hi |-> -1,
     threw |-> "none", pend |-> NoOpen,
     closed |-> FALSE, alloc |-> "never",
     mark |-> [st |-> "never", pos |-> 0, moved |-> FALSE], lo |-> 0]

\* a new call on the stream
FisCall(s, op, arg) ==
    [s EXCEPT !.op = op, !.arg = arg, !.ret = UNDEF, !.hi = -1,
              !.threw = "none"]

fisAvailable(s) == s.count - s.pos

\* open({ offset, length, blocking, onReadable }): this.file.length(...)
fisOpen(s, offset, length, blocking) ==
    [s EXCEPT !.pend = [stage |-> "file", offset |-> offset,
                        length |-> length, blocking |-> blocking]]

\* the closures of length and getInputStream: on failure onReadable(cause),
\* otherwise the stream's event handlers are registered
fisOpenFile(s, ok) ==
    IF ok /\ s.present THEN [s EXCEPT !.pend.stage = "data"]
    ELSE [s EXCEPT !.pend = NoOpen]

\* if (offset > 0 && length > 0) { pos = offset; count = min(offset + length, size) }
\* else { count = size; pos = 0 }
fisWindow(s, offset, length) ==
    IF offset > 0 /\ length > 0
    THEN [s EXCEPT !.pos = offset, !.count = Min(offset + length, s.size)]
    ELSE [s EXCEPT !.count = s.size, !.pos = 0]

\* the readable handler (blocking) / the end handler (not blocking); chunk
\* is the length of the first chunk of the stream.  The readable handler
\* allocates size cells and copies the one chunk stream.read() returns; on
\* an empty file stream.read() returns null and chunk.length throws, after
\* the buffer was allocated.  The end handler hands the string chunks of
\* the stream to Buffer.concat, which throws unless there is none.
fisOpenData(s, chunk) ==
    LET o == s.pend
        s1 == [s EXCEPT !.pend = NoOpen, !.threw = "none", !.hi = -1]
    IN  IF o.blocking
        THEN IF s.size = 0
             THEN [s1 EXCEPT !.buf = 0, !.filled = 0, !.threw = "TypeError"]
             ELSE fisWindow([s1 EXCEPT !.buf = s.size, !.filled = chunk],
                            o.offset, o.length)
        ELSE IF s.size > 0
             THEN [s1 EXCEPT !.threw = "TypeError"]
             ELSE fisWindow([s1 EXCEPT !.buf = 0, !.filled = 0],
                            o.offset, o.length)

\* ensureOpen(): if (this.buf === null) throw new ReferenceError("Stream closed")
ensureOpen(s) == IF s.buf = NoBuf THEN "ReferenceError" ELSE "none"

\* read(): return (this.pos < this.count) ? (this.buf[this.pos++] & 0xff) : -1
fisRead(s) ==
    IF ensureOpen(s) # "none" THEN [s EXCEPT !.threw = ensureOpen(s)]
    ELSE IF s.pos < s.count
         THEN [s EXCEPT !.hi = s.pos, !.pos = @ + 1,
                        !.ret = Num(BufByte(s, s.pos))]
         ELSE [s EXCEPT !.ret = Num(-1)]

\* read(b, off, len) with b.length = blen: len = len || b.length; the range
\* check; -1 at the end of the data; otherwise util.arraycopy of
\* min(len, count - pos) bytes
fisReadInto(s, blen, off, len0) ==
    LET len == IF len0 = 0 THEN blen ELSE len0
        n == IF s.pos + len > s.count THEN s.count - s.pos ELSE len
    IN  IF ensureOpen(s) # "none" THEN [s EXCEPT !.threw = ensureOpen(s)]
        ELSE IF off < 0 \/ len < 0 \/ len > blen - off
             THEN [s EXCEPT !.threw = "RangeError"]
        ELSE IF s.pos >= s.count THEN [s EXCEPT !.ret = Num(-1)]
        ELSE IF n <= 0 THEN [s EXCEPT !.ret = Num(0)]
        ELSE [s EXCEPT !.hi = s.pos + n - 1, !.pos = @ + n, !.ret = Num(n)]

\* mark(readAheadLimit): this.markPos = this.pos
fisMark(s) == [s EXCEPT !.markPos = s.pos]

\* reset(), with position set to 0 whatever the mark
fisReset_ToStart(s) == [s EXCEPT !.pos = 0]

\* reset(): this.pos = this.markPos
fisReset(s) == [s EXCEPT !.pos = s.markPos]

\* skip(n) without the clamp to count
fisSkip_Unclamped(s, n0) ==
    IF n0 < 0 THEN [s EXCEPT !.ret = Num(0)]
    ELSE [s EXCEPT !.pos = @ + n0, !.ret = Num(n0)]

\* skip(n): if (pos + n > count) n = count - pos; if (n < 0) return 0;
\* pos += n; return n
fisSkip(s, n0) ==
    LET n == IF s.pos + n0 > s.count THEN s.count - s.pos ELSE n0
    IN  IF n < 0 THEN [s EXCEPT !.ret = Num(0)]
        ELSE [s EXCEPT !.pos = @ + n, !.ret = Num(n)]

\* close(): this.buf = null; this.pos = this.count = this.markPos = 0
fisClose(s) ==
    [s EXCEPT !.buf = NoBuf, !.filled = 0, !.pos = 0, !.count = 0,
              !.markPos = 0]

\* the history of the step ev that took the stream from s to t; lo is the
\* offset of the window the buffer was opened with, 0 without a window
Track(s, t, ev) ==
    [t EXCEPT
       !.closed = s.closed \/ ev = "close",
       !.alloc = IF ev = "data" /\ (s.pend.blocking \/ t.threw = "none")
                 THEN (IF s.alloc = "never" THEN "once" ELSE "again")
                 ELSE s.alloc,
       !.mark = IF ev = "mark"
                THEN [st |-> "valid", pos |-> s.pos, moved |-> FALSE]
                ELSE IF ev \in {"open", "data", "close"} /\ s.mark.st = "valid"
                THEN [st |-> "stale", pos |-> 0, moved |-> FALSE]
                ELSE IF ev \in {"read", "skip"} /\ s.mark.st = "valid"
                THEN [s.mark EXCEPT !.moved = @ \/ t.pos # s.pos]
                ELSE s.mark,
       !.lo = IF ev = "data"
              THEN (IF t.threw = "none"
                    THEN (IF s.pend.offset > 0 /\ s.pend.length > 0
                          THEN s.pend.offset ELSE 0)
                    ELSE IF s.pend.blocking THEN 0 ELSE s.lo)
              ELSE IF ev = "close" THEN 0 ELSE s.lo]

-----------------------------------------------------------------------------
(* SpecStream: calls on one FileInputStream, and the event loop.           *)

\* the (offset, length) pairs open is called with
OpenWindows == {<<0, 0>>, <<1, 1>>, <<1, MaxSize>>, <<MaxSize + 1, 1>>}

\* the lengths the first chunk of a stream over size bytes can have
ChunkLens(size) == IF size = 0 THEN {0} ELSE 1..size

\* the (off, len) pairs read is called with, on a destination of MaxSize
\* bytes, and the arguments of skip
ReadArgs == {<<0, 0>>, <<0, 1>>, <<0, MaxSize>>, <<1, 0>>, <<1, MaxSize - 1>>}
SkipArgs == {-1, 0, 1, MaxSize}

InitStream ==
    /\ EX = "null"
    /\ fs = NoFs
    /\ pc = PcInit
    /\ mk = Idle
    /\ rm = Idle
    /\ fh = Idle
    /\ fw = Idle
    /\ fc = Idle
    /\ \E size \in 0..MaxSize, present \in BOOLEAN :
          /\ ~present => size = 0
          /\ fis = FisInit(size, present)

StreamOpen(offset, length, blocking) ==
    /\ fis.pend.stage = "none"
    /\ fis' = Track(fis, fisOpen(FisCall(fis, "open", <<>>),
                                 offset, length, blocking), "open")
    /\ UNCHANGED <<EX, fs, pc, mk, rm, fh, fw, fc>>

StreamOpenFile(ok) ==
    /\ fis.pend.stage = "file"
    /\ fis' = Track(fis, fisOpenFile(fis, ok), "file")
    /\ UNCHANGED <<EX, fs, pc, mk, rm, fh, fw, fc>>

StreamOpenData(chunk) ==
    /\ fis.pend.stage = "data"
    /\ chunk \in ChunkLens(fis.size)
    /\ fis' = Track(fis, fisOpenData(fis, chunk), "data")
    /\ UNCHANGED <<EX, fs, pc, mk, rm, fh, fw, fc>>

StreamRead ==
    /\ fis' = Track(fis, fisRead(FisCall(fis, "read", <<>>)), "read")
    /\ UNCHANGED <<EX, fs, pc, mk, rm, fh, fw, fc>>

StreamReadInto(off, len) ==
    /\ fis' = Track(fis, fisReadInto(FisCall(fis, "readInto", <<off, len>>),
                                     MaxSize, off, len), "read")
    /\ UNCHANGED <<EX, fs, pc, mk, rm, fh, fw, fc>>

StreamMark ==
    /\ fis' = Track(fis, fisMark(FisCall(fis, "mark", <<>>)), "mark")
    /\ UNCHANGED <<EX, fs, pc, mk, rm, fh, fw, fc>>

StreamReset ==
    /\ fis' = Track(fis, fisReset(FisCall(fis, "reset", <<>>)), "reset")
    /\ UNCHANGED <<EX, fs, pc, mk, rm, fh, fw, fc>>

StreamSkip(n) ==
    /\ fis' = Track(fis, fisSkip(FisCall(fis, "skip", <<n>>), n), "skip")
    /\ UNCHANGED <<EX, fs, pc, mk, rm, fh, fw, fc>>

StreamClose ==
    /\ fis' = Track(fis, fisClose(FisCall(fis, "close", <<>>)), "close")
    /\ UNCHANGED <<EX, fs, pc, mk, rm, fh, fw, fc>>

NextStream ==
    \/ \E w \in OpenWindows, blocking \in BOOLEAN :
          StreamOpen(w[1], w[2], blocking)
    \/ \E ok \in BOOLEAN : StreamOpenFile(ok)
    \/ \E chunk \in 0..MaxSize : StreamOpenData(chunk)
    \/ StreamRead
    \/ \E a \in ReadArgs : StreamReadInto(a[1], a[2])
    \/ StreamMark
    \/ StreamReset
    \/ \E n \in SkipArgs : StreamSkip(n)
    \/ StreamClose

SpecStream == InitStream /\ [][NextStream]_vars

-----------------------------------------------------------------------------
(* Claims about the FileInputStream (checked under SpecStream).            *)

\* the length of the buffer (0 when there is none)
BufLen == IF fis.buf = NoBuf THEN 0 ELSE fis.buf

\* C20: in every reachable state of a FileInputStream
\* 0 <= position <= count <= buffer length holds, so that available() is
\* never negative, and no read accesses the buffer at an index >= count.
C20_StreamInvariant ==
    /\ 0 <= fis.pos
    /\ fis.pos <= fis.count
    /\ fis.count <= BufLen
    /\ fisAvailable(fis) >= 0
    /\ fis.hi < fis.count

\* the step is a call of the method op (the event handlers of open change
\* pend, the calls of the other methods do not)
IsCall(op) == fis'.op = op /\ fis'.pend = fis.pend

\* the step is the readable / end handler of an open
IsOpenData == fis.pend.stage = "data" /\ fis'.pend.stage = "none"

\* C21: a FileInputStream moves only from unopened to opened to closed:
\* once close has been called the stream has no buffer again, whether by
\* a later open or by an open in flight at the close, and the buffer is
\* allocated at most once in the life of the stream.
C21_ClosedIsTerminal ==
    /\ fis.closed => fis.buf = NoBuf
    /\ fis.alloc # "again"

\* C22: when open(offset, length) completes on a file of size bytes, in
\* the blocking and in the non-blocking strategy, the stream has its
\* buffer and, if offset > 0 and length > 0, position = offset and
\* count = min(offset + length, size), otherwise position = 0 and
\* count = size.
C22_OpenWindow ==
    [][IsOpenData =>
        /\ fis'.threw = "none"
        /\ fis'.buf # NoBuf
        /\ IF fis.pend.offset > 0 /\ fis.pend.length > 0
           THEN /\ fis'.pos = fis.pend.offset
                /\ fis'.count = Min(fis.pend.offset + fis.pend.length, fis.size)
           ELSE /\ fis'.pos = 0
                /\ fis'.count = fis.size]_vars

\* C23: on an open stream read(b, off, len) with 0 <= off and
\* 0 <= len <= b.length - off returns -1 and leaves position unchanged
\* when position >= count, and otherwise copies n = min(len, count -
\* position) bytes, advances position by n and returns n (0 when len = 0);
\* read() returns the byte at position and advances by 1, or returns -1
\* at the end of the data.
C23_ReadContract ==
    [][/\ (IsCall("readInto") /\ fis.buf # NoBuf
              /\ fis'.arg[2] <= MaxSize - fis'.arg[1]) =>
           IF fis.pos >= fis.count
           THEN fis'.ret = Num(-1) /\ fis'.pos = fis.pos
           ELSE /\ fis'.ret = Num(Min(fis'.arg[2], fis.count - fis.pos))
                /\ fis'.pos = fis.pos + Min(fis'.arg[2], fis.count - fis.pos)
       /\ (IsCall("read") /\ fis.buf # NoBuf) =>
           IF fis.pos >= fis.count
           THEN fis'.ret = Num(-1) /\ fis'.pos = fis.pos
           ELSE /\ fis'.ret = Num(BufByte(fis, fis.pos))
                /\ fis'.pos = fis.pos + 1]_vars

\* C24: a read on a FileInputStream that has been closed, or was never
\* opened, is reported as stream-closed and changes none of position,
\* count and markPosition.
C24_ReadAfterClose ==
    [][((IsCall("read") \/ IsCall("readInto"))
           /\ (fis.closed \/ fis.alloc = "never")) =>
        /\ fis'.threw = "ReferenceError"
        /\ fis'.pos = fis.pos
        /\ fis'.count = fis.count
        /\ fis'.markPos = fis.markPos]_vars

\* C25: on an open stream, mark followed by any sequence of read and skip
\* calls followed by reset restores position to its value at the mark; a
\* reset with no mark before it sets position to 0.
C25_ResetRestoresMark ==
    [][(IsCall("reset") /\ fis.buf # NoBuf) =>
        /\ fis.mark.st = "valid" => fis'.pos = fis.mark.pos
        /\ fis.mark.st = "never" => fis'.pos = 0]_vars

\* a reset has restored a position other than 0 that reads or skips had left
C25_Witness ==
    /\ fis.op = "reset"
    /\ fis.buf # NoBuf
    /\ fis.mark.st = "valid"
    /\ fis.mark.moved
    /\ fis.mark.pos > 0
    /\ fis.pos = fis.mark.pos

\* C26: skip(n) with n >= 0 sets position to min(position + n, count) and
\* returns the number of bytes skipped, never moving position past count;
\* when the amount left to skip is negative it returns 0 and leaves
\* position unchanged.
C26_SkipClamps ==
    [][IsCall("skip") =>
        IF fis'.arg[1] < 0 \/ fis.count - fis.pos < 0
        THEN fis'.ret = Num(0) /\ fis'.pos = fis.pos
        ELSE /\ fis'.pos = Min(fis.pos + fis'.arg[1], fis.count)
             /\ fis'.pos <= fis.count
             /\ fis'.ret = Num(fis'.pos - fis.pos)]_vars

\* a skip of more than the stream had left has stopped at count
C26_Witness ==
    /\ fis.op = "skip"
    /\ fis.ret.t = "int"
    /\ fis.ret.v > 0
    /\ fis.ret.v < fis.arg[1]
    /\ fis.pos = fis.count

\* C27: after the bytes B were written to a file and a FileInputStream on
\* it was opened with offset 0 and length 0, available() is |B| and the
\* successive reads return the bytes of B in order, whichever the
\* strategy and however the byte source splits B into chunks.
C27_RoundTrip ==
    [][(IsOpenData /\ fis.pend.offset = 0 /\ fis.pend.length = 0) =>
        /\ fis'.buf # NoBuf
        /\ fisAvailable(fis') = fis.size
        /\ \A i \in 0..(fis.size - 1) : BufByte(fis', i) = FileByte(i)]_vars


-----------------------------------------------------------------------------
(* A File handle and the native change-notification subscriptions made     *)
(* through it.  watcher is this.watcher (NoWatcher: null), open the set of *)
(* native subscriptions that were made and not closed, made their number,  *)
(* probes the number of watch calls whose exists probe is outstanding,     *)
(* calls the number of watch calls.  op is the last call or event,         *)
(* destroying whether it called this.destroy(), told whether it called     *)
(* onAccess(ERROR, cause).                                                 *)

MaxWatches == 2
NoWatcher == 0

\* setup: this.onUnwatchDelete = onUnwatchDelete; this.watcher = null
FwInit(present, onUnwatchDelete) ==
    [present |-> present, onUnwatchDelete |-> onUnwatchDelete,
     watcher |-> NoWatcher,
     open |-> {}, made |-> 0, probes |-> 0, calls |-> 0,
     op |-> "none", destroying |-> FALSE, told |-> FALSE]

\* a new call on the handle, or an event
FwCall(w, op) == [w EXCEPT !.op = op, !.destroying = FALSE, !.told = FALSE]

\* isWatched(): return this.watcher !== null
isWatched(w) == w.watcher # NoWatcher

\* deleteOnUnwatch(onUnwatchDelete = true)
deleteOnUnwatch(w, onUnwatchDelete) ==
    [w EXCEPT !.onUnwatchDelete = onUnwatchDelete]

\* destroy(): this.exists(...) starts the removal of the path
destroy(w) == [w EXCEPT !.destroying = TRUE]

\* watch({ ..., onAccess }): this.exists(closure)
watch(w) == [w EXCEPT !.probes = @ + 1, !.calls = @ + 1]

\* the closure of watch: if (code !== ERROR) this.watcher = watch(this.path, ...)
\* else onAccess(ERROR, reason || ...)
watchClosure(w, code) ==
    IF code # ERROR
    THEN [w EXCEPT !.probes = @ - 1, !.made = @ + 1,
                   !.watcher = w.made + 1, !.open = @ \cup {w.made + 1}]
    ELSE [w EXCEPT !.probes = @ - 1, !.told = TRUE]

\* unwatch(), without the call of destroy
unwatch_NeverDestroys(w) ==
    IF isWatched(w)
    THEN [w EXCEPT !.open = @ \ {w.watcher}, !.watcher = NoWatcher]
    ELSE w

\* unwatch(): if (this.isWatched()) { this.watcher.close(); this.watcher = null;
\* if (this.onUnwatchDelete) this.destroy() }
unwatch(w) ==
    IF isWatched(w)
    THEN IF w.onUnwatchDelete
         THEN destroy([w EXCEPT !.open = @ \ {w.watcher}, !.watcher = NoWatcher])
         ELSE [w EXCEPT !.open = @ \ {w.watcher}, !.watcher = NoWatcher]
    ELSE w

-----------------------------------------------------------------------------
(* SpecWatch: calls of watch, unwatch and deleteOnUnwatch on one handle,   *)
(* and the event loop running the closures of the exists probes.           *)

InitWatch ==
    /\ EX = "null"
    /\ fs = NoFs
    /\ pc = PcInit
    /\ mk = Idle
    /\ rm = Idle
    /\ fh = Idle
    /\ fis = Idle
    /\ fc = Idle
    /\ \E present \in BOOLEAN, onUnwatchDelete \in BOOLEAN :
          fw = FwInit(present, onUnwatchDelete)

WatchCall ==
    /\ fw.calls < MaxWatches
    /\ fw' = watch(FwCall(fw, "watch"))
    /\ UNCHANGED <<EX, fs, pc, mk, rm, fh, fis, fc>>

\* File.access of exists answers SUCCESS iff the path is accessible
WatchProbed ==
    /\ fw.probes > 0
    /\ fw' = watchClosure(FwCall(fw, "probed"),
                          IF fw.present THEN SUCCESS ELSE ERROR)
    /\ UNCHANGED <<EX, fs, pc, mk, rm, fh, fis, fc>>

UnwatchCall ==
    /\ fw' = unwatch(FwCall(fw, "unwatch"))
    /\ UNCHANGED <<EX, fs, pc, mk, rm, fh, fis, fc>>

DeleteOnUnwatchCall(onUnwatchDelete) ==
    /\ fw' = deleteOnUnwatch(FwCall(fw, "deleteOnUnwatch"), onUnwatchDelete)
    /\ UNCHANGED <<EX, fs, pc, mk, rm, fh, fis, fc>>

\* the path appears or disappears
PathChange ==
    /\ fw' = [FwCall(fw, "path") EXCEPT !.present = ~@]
    /\ UNCHANGED <<EX, fs, pc, mk, rm, fh, fis, fc>>

NextWatch ==
    \/ WatchCall
    \/ WatchProbed
    \/ UnwatchCall
    \/ \E b \in BOOLEAN : DeleteOnUnwatchCall(b)
    \/ PathChange

SpecWatch == InitWatch /\ [][NextWatch]_vars

-----------------------------------------------------------------------------
(* Claims about the watch subscription (checked under SpecWatch).          *)

\* C28: a File handle holds at most one live watch subscription: a watch
\* on a handle that is watched already never leaves two native
\* subscriptions open.
C28_AtMostOneSubscription == Cardinality(fw.open) <= 1

\* C29: unwatch on a watched handle closes the handle's subscription,
\* makes isWatched() false and calls for the destruction of the path iff
\* the delete-on-unwatch flag is set; unwatch on a handle that is not
\* watched changes nothing.
C29_Unwatch ==
    [][fw'.op = "unwatch" =>
        IF isWatched(fw)
        THEN /\ fw.watcher \notin fw'.open
             /\ ~isWatched(fw')
             /\ fw'.destroying <=> fw.onUnwatchDelete
        ELSE /\ fw'.watcher = fw.watcher
             /\ fw'.open = fw.open
             /\ fw'.onUnwatchDelete = fw.onUnwatchDelete
             /\ ~fw'.destroying]_vars

\* an unwatch has closed the subscription of a watched handle whose flag
\* was set, and called destroy
C29_Witness ==
    /\ fw.op = "unwatch"
    /\ fw.destroying
    /\ fw.made > 0
    /\ ~isWatched(fw)

-----------------------------------------------------------------------------
(* The order of the native calls of mkdirs (checked under SpecMkdirs).     *)

\* the native calls of log went through the queue from its first entry to
\* its last: each call is for the entry of the call before it (the mkdir
\* after a failed access) or for the next, longer one
MkInOrder(log) ==
    \A j \in 1..Len(log) :
        IF j = 1 THEN log[j].idx = 1
        ELSE \/ /\ log[j].idx = log[j - 1].idx
                /\ log[j - 1].op = "access"
                /\ log[j].op = "mkdir"
                /\ log[j].path = log[j - 1].path
             \/ /\ log[j].idx = log[j - 1].idx + 1
                /\ Len(log[j].path) > Len(log[j - 1].path)

\* C30: mkdirs processes the sequence of ancestors strictly from left to
\* right, the shortest path first and the leaf last; in the non-blocking
\* form a step is issued only after the native callback of the step
\* before it has fired, so at most one native call of a mkdirs is
\* outstanding at any time.
C30_MkdirsSerialized ==
    (mk.op = "mkdirs" /\ ~mk.a.argNull) =>
        /\ MkInOrder(mk.log)
        /\ \A j \in 1..Len(mk.log) :
              /\ mk.log[j].idx <= mk.qlen
              /\ mk.log[j].idx = mk.qlen => mk.log[j].op = "mkdir"
        /\ Cardinality(mk.c.pend) <= 1
        /\ \A n \in mk.c.pend :
              /\ mk.c.natives = Len(mk.log) + 1
              /\ mk.log # <<>> =>
                    /\ n.idx >= mk.log[Len(mk.log)].idx
                    /\ n.idx <= mk.log[Len(mk.log)].idx + 1

\* a non-blocking mkdirs of two entries has ended after three native
\* calls: the failed access of the parent, its mkdir and the mkdir of the
\* leaf
C30_Witness ==
    /\ mk.op = "mkdirs"
    /\ ~mk.a.argNull
    /\ ~mk.a.sync
    /\ mk.c.pend = {}
    /\ Len(mk.log) = 3
    /\ mk.log[3].idx = mk.qlen
    /\ mk.log[3].res = "ok"

-----------------------------------------------------------------------------
(* The order of the native calls of rimraf (checked under SpecRimraf).     *)

\* the entries of the directory q in the tree f
Children(q, f) == {r \in f.dirs \cup f.files : Len(r) = Len(q) + 1 /\ IsPrefix(q, r)}

\* C31: rimraf issues the rmdir of a directory only after every listed
\* entry of that directory has been removed successfully, and handles the
\* entries one at a time: in the non-blocking form at most one native call
\* of a rimraf is outstanding at any time.
C31_RmdirAfterEntries ==
    (rm.op = "rimraf" /\ ~rm.a.argNull) =>
        /\ \A i \in 1..Len(rm.log) :
              rm.log[i].op = "rmdir" =>
                  \A r \in Children(rm.log[i].path, rm.fs0) : ~Exists(r, fs)
        /\ Cardinality(rm.c.pend) <= 1

\* C32: the non-blocking rimraf invokes its completion callback exactly
\* once, for every shape of the tree and every failure point, and issues
\* no further native call after invoking it.
C32_RimrafCallbackOnce ==
    (rm.op = "rimraf" /\ ~rm.a.argNull /\ ~rm.a.sync /\ rm.a.cb = USERCB) =>
        /\ Len(rm.c.cbs) <= 1
        /\ rm.c.pend = {} => Len(rm.c.cbs) = 1
        /\ rm.c.cbs # <<>> => rm.c.pend = {}

\* a non-blocking rimraf has failed at a native call below the root and
\* has told its caller once
C32_Witness ==
    /\ RimrafDone
    /\ ~rm.a.sync
    /\ rm.a.cb = USERCB
    /\ rm.err # "none"
    /\ Len(rm.log) >= 4
    /\ Len(rm.c.cbs) = 1
    /\ rm.c.cbs[1].status = ERROR

-----------------------------------------------------------------------------
(* Which native calls mkdirs issues (checked under SpecMkdirs).            *)

\* the creations of the leaf in log, the last entry of a queue of qlen
LeafCreates(log, qlen) ==
    {j \in 1..Len(log) : log[j].op = "mkdir" /\ log[j].idx = qlen}

\* C33: mkdirs issues a create call for an intermediate ancestor if and
\* only if the accessibility check of that ancestor fails, and exactly one
\* create call for the leaf, without checking it first; when every
\* ancestor exists already the leaf is the only directory created, and a
\* path of a single segment results in exactly one create call and no
\* accessibility check.
C33_CreateIffCheckFails ==
    (mk.op = "mkdirs" /\ ~mk.a.argNull) =>
        /\ \A j \in 1..Len(mk.log) :
              /\ mk.log[j].op = "access" => mk.log[j].idx < mk.qlen
              /\ (mk.log[j].op = "mkdir" /\ mk.log[j].idx < mk.qlen) =>
                    /\ j > 1
                    /\ mk.log[j - 1].op = "access"
                    /\ mk.log[j - 1].idx = mk.log[j].idx
                    /\ mk.log[j - 1].res # "ok"
              /\ (mk.log[j].op = "access" /\ mk.log[j].res # "ok") =>
                    IF j < Len(mk.log)
                    THEN mk.log[j + 1].op = "mkdir"
                            /\ mk.log[j + 1].idx = mk.log[j].idx
                    ELSE \E n \in mk.c.pend :
                            n.op = "mkdir" /\ n.idx = mk.log[j].idx
              /\ (mk.log[j].op = "access" /\ mk.log[j].res = "ok"
                     /\ j < Len(mk.log)) =>
                    mk.log[j + 1].idx = mk.log[j].idx + 1
        /\ Cardinality(LeafCreates(mk.log, mk.qlen)) <= 1
        /\ (mk.c.pend = {} /\ \A j \in 1..Len(mk.log) :
                                 mk.log[j].idx < mk.qlen => mk.log[j].res = "ok") =>
              Cardinality(LeafCreates(mk.log, mk.qlen)) = 1
        /\ (mk.c.pend = {} /\ ~mk.src.abs /\ Len(mk.src.segs) = 1) =>
              /\ Len(mk.log) = 1
              /\ mk.log[1].op = "mkdir"

\* a mkdirs of two entries has found the parent accessible and has created
\* the leaf alone
C33_Witness ==
    /\ MkdirsDone
    /\ mk.qlen = 2
    /\ Len(mk.log) = 2
    /\ mk.log[1].op = "access"
    /\ mk.log[1].res = "ok"
    /\ mk.log[2].op = "mkdir"
    /\ mk.log[2].res = "ok"

-----------------------------------------------------------------------------
(* The handle operation createDirs on the path src.  The run is kept in mk *)
(* like a mkdirs run; was records whether the path existed at the call,    *)
(* the exists probe is logged with index 0.                                *)

\* createDirs(): let code = this.exists(); if (code !== ERROR) return
\* File.mkdirs({ src: this.path, sync: true }); else EX = EX || ...;
\* return ERROR: [s, c]
createDirsSync(src, deny, c, s) ==
    LET s1 == DoAccess(src, 0, s)
    IN  IF s1.err = "none"
        THEN mkdirsSync(splitPaths(src), deny, NOCB, c, s1)
        ELSE [s |-> s1,
              c |-> Return(OrEX(handleError(s1.err, NOCB,
                                            [c EXCEPT !.natives = 1]),
                                "FileExistException"),
                           Num(ERROR))]

\* createDirs(onAccess): this.exists(closure)
createDirsAsync(src, c) == MkIssue(c, "access", src, 0, "exists")

\* the closure of createDirs: if (code === ERROR) File.mkdirs({ src, onCreate })
\* else onAccess(ERROR, reason || new ReferenceError('FileExistException')):
\* [queue, c]
createDirsClosure(src, cb, c, s) ==
    IF s.err # "none" THEN mkdirsAsync(splitPaths(src), cb, c)
    ELSE [queue |-> <<>>, c |-> Invoke(c, ERROR, "FileExistException")]

\* the caller invokes createDirs() / createDirs(cb) on a handle with path src
CreateDirsCall(src, cb, deny) ==
    /\ mk.c.pend = {}
    /\ LET isSync == cb = NOCB
           a == [argNull |-> FALSE, sync |-> isSync, cb |-> cb]
           queue == splitPaths(src)
           s0 == [fs |-> fs, log |-> <<>>, err |-> "none"]
           base == [op |-> "createDirs", a |-> a, src |-> src, deny |-> deny,
                    qlen |-> Len(queue), again |-> FALSE,
                    was |-> Exists(Resolve(src, fs), fs)]
       IN  /\ deny \in 0..Len(queue)
           /\ IF isSync THEN
                  LET r == createDirsSync(src, deny, Ctx(EX), s0)
                  IN  /\ mk' = base @@ [queue |-> <<>>, c |-> r.c, log |-> r.s.log,
                                        err |-> r.s.err]
                      /\ EX' = r.c.EX
                      /\ fs' = r.s.fs
              ELSE
                  LET c == createDirsAsync(src, Ctx(EX))
                  IN  /\ mk' = base @@ [queue |-> <<>>, c |-> c, log |-> <<>>,
                                        err |-> "none"]
                      /\ EX' = c.EX
                      /\ fs' = fs
    /\ UNCHANGED <<pc, rm, fh, fis, fw, fc>>

\* the exists probe of the createDirs in progress ends
CreateDirsProbed ==
    /\ mk.op = "createDirs"
    /\ \E n \in mk.c.pend :
        /\ n.k = "exists"
        /\ LET s1 == DoAccess(n.path, 0, [fs |-> fs, log |-> mk.log, err |-> "none"])
               c1 == [mk.c EXCEPT !.pend = @ \ {n}]
               r == createDirsClosure(mk.src, mk.a.cb, c1, s1)
           IN  /\ mk' = [mk EXCEPT !.queue = r.queue, !.c = r.c, !.log = s1.log]
               /\ EX' = r.c.EX
               /\ fs' = fs
    /\ UNCHANGED <<pc, rm, fh, fis, fw, fc>>

\* an outstanding native call of the mkdirs of the createDirs in progress ends
CreateDirsStep ==
    /\ mk.op = "createDirs"
    /\ \E n \in mk.c.pend :
        /\ n.k # "exists"
        /\ LET s0 == [fs |-> fs, log |-> mk.log, err |-> "none"]
               s1 == IF n.op = "access" THEN DoAccess(n.path, n.idx, s0)
                     ELSE DoMkdir(n.path, n.idx, mk.deny, s0)
               c1 == [mk.c EXCEPT !.pend = @ \ {n}]
               r == mkdirsClosure(n, mk.queue, mk.qlen, mk.a.cb, c1, s1)
           IN  /\ mk' = [mk EXCEPT !.queue = r.queue, !.c = r.c, !.log = s1.log,
                                   !.err = IF n.op = "mkdir" THEN s1.err ELSE @]
               /\ EX' = r.c.EX
               /\ fs' = s1.fs
    /\ UNCHANGED <<pc, rm, fh, fis, fw, fc>>

NextCreateDirs ==
    \/ \E src \in PathArgs, cb \in {NOCB, USERCB}, deny \in 0..(MaxSegs + 1) :
          CreateDirsCall(src, cb, deny)
    \/ CreateDirsProbed
    \/ CreateDirsStep

SpecCreateDirs == InitMkdirs /\ [][NextCreateDirs]_vars

\* C34: createDirs creates the directory chain and reports success when
\* its path does not exist, and reports ERROR without creating anything
\* when the path exists already, identically in the callback-less form
\* and in the callback form (no native call being refused).
C34_CreateDirs ==
    (mk.op = "createDirs" /\ mk.c.pend = {} /\ mk.deny = 0) =>
        IF mk.was
        THEN /\ Told(mk) = "ERROR"
             /\ \A j \in 1..Len(mk.log) :
                   ~(mk.log[j].op = "mkdir" /\ mk.log[j].res = "ok")
        ELSE /\ Told(mk) = "SUCCESS"
             /\ Exists(Resolve(mk.src, fs), fs)

-----------------------------------------------------------------------------
(* Further claims about the File handle (checked under SpecHandle).        *)

\* what the finished call of a handle method has told its caller: the
\* callback-less form by its return value, the callback form by its
\* callback
HandleTold ==
    IF fh.cb = NOCB THEN (IF IsERROR(fh.ret) THEN "ERROR" ELSE "other")
    ELSE IF fh.ucbs = <<>> THEN "none"
    ELSE IF fh.ucbs[Len(fh.ucbs)].status = ERROR THEN "ERROR" ELSE "other"

\* C35: the handle operations read and write proceed to the native read /
\* write exactly when the path of the handle is an existing plain file, and
\* report ERROR otherwise, identically in the callback-less and in the
\* callback form: on a plain file the call goes on from the type test to
\* the open of a descriptor (the second native call), on anything else no
\* descriptor is read or written (the third) and the caller is told ERROR.
C35_TransferOnPlainFile ==
    (fh.op \in {"read", "write"} /\ fh.pend = {}) =>
        IF fh.kind = "file"
        THEN fh.natives >= 2
        ELSE fh.natives < 3 /\ HandleTold = "ERROR"

-----------------------------------------------------------------------------
(* A File handle on a plain file and the native closes made through it.    *)
(* fd is this.fd, live the descriptors open in the process, next the       *)
(* descriptor the next native open returns, passed the descriptors handed  *)
(* to the native close so far, in order, pend those whose non-blocking     *)
(* close has not ended.  The record carries the last-error slot (EX), the  *)
(* return value of the last call (ret) and the invocations of the caller's *)
(* callbacks since the last call (cbs).                                    *)

MaxCloses == 3

FcInit ==
    [fd |-> 0, live |-> {}, next |-> FirstFd, passed |-> <<>>, pend |-> <<>>,
     EX |-> "null", ret |-> UNDEF, cbs |-> <<>>, wrote |-> FALSE]

\* a new call on the handle
FcCall(w) == [w EXCEPT !.ret = UNDEF, !.cbs = <<>>, !.wrote = FALSE]

\* isOpen(): return this.fd !== 0
isOpen(w) == w.fd # 0

\* open() on a plain file, callback-less: this.fd = File.openFd({ ..., sync: true })
fcOpen(w) ==
    Return([w EXCEPT !.fd = w.next, !.live = @ \cup {w.next}, !.next = @ + 1],
           Num(w.next))

\* close(), callback-less: closeSync(this.fd); this.fd = 0; the code, or
\* EX = EX || ... and ERROR; on a handle that is not open EX = ... and ERROR
fcCloseSync(w) ==
    IF isOpen(w)
    THEN LET w1 == [w EXCEPT !.passed = Append(@, w.fd), !.live = @ \ {w.fd},
                             !.fd = 0]
         IN  IF w.fd \in w.live THEN Return(w1, Num(SUCCESS))
             ELSE Return(OrEX(handleError("EBADF", NOCB, w1), "FileExistException"),
                         Num(ERROR))
    ELSE Return(SetEX(w, "FileNotOpenedException"), Num(ERROR))

\* close(onClose): if (this.isOpen()) File.closeFd({ src: this.fd, onClose: closure })
\* else onClose(ERROR, ...)
fcCloseAsync(w) ==
    IF isOpen(w)
    THEN [w EXCEPT !.passed = Append(@, w.fd), !.pend = Append(@, w.fd)]
    ELSE Invoke(w, ERROR, "FileNotOpenedException")

\* the i-th outstanding native close ends: err ? handleError(err) :
\* handleSuccess(null, closure), the closure being this.fd = 0; onClose(code, reason)
fcCloseClosure(w, i) ==
    LET d == w.pend[i]
        w1 == [w EXCEPT !.pend = SubSeq(@, 1, i - 1) \o SubSeq(@, i + 1, Len(@)),
                        !.live = @ \ {d}]
    IN  IF d \in w.live THEN Invoke([w1 EXCEPT !.fd = 0], SUCCESS, "null")
        ELSE handleError("EBADF", NOCB, w1)

-----------------------------------------------------------------------------
(* SpecClose: opens and closes on one handle; a call may be made while     *)
(* non-blocking closes are outstanding.                                    *)

InitClose ==
    /\ EX = "null"
    /\ fs = NoFs
    /\ pc = PcInit
    /\ mk = Idle
    /\ rm = Idle
    /\ fh = Idle
    /\ fis = Idle
    /\ fw = Idle
    /\ fc = FcInit

CloseOpenCall ==
    /\ fc.next < FirstFd + MaxFds
    /\ fc' = fcOpen(FcCall(fc))
    /\ UNCHANGED <<EX, fs, pc, mk, rm, fh, fis, fw>>

CloseCall(cb) ==
    /\ Len(fc.passed) < MaxCloses
    /\ fc' = IF cb = NOCB THEN fcCloseSync(FcCall(fc)) ELSE fcCloseAsync(FcCall(fc))
    /\ EX' = fc'.EX
    /\ UNCHANGED <<fs, pc, mk, rm, fh, fis, fw>>

CloseDone(i) ==
    /\ i \in 1..Len(fc.pend)
    /\ fc' = fcCloseClosure(fc, i)
    /\ EX' = fc'.EX
    /\ UNCHANGED <<fs, pc, mk, rm, fh, fis, fw>>

NextClose ==
    \/ CloseOpenCall
    \/ \E cb \in {NOCB, USERCB} : CloseCall(cb)
    \/ \E i \in 1..MaxCloses : CloseDone(i)

SpecClose == InitClose /\ [][NextClose]_vars

\* C38: each descriptor opened through a File handle is passed to the
\* native close at most once, also when the callback form of close is
\* called a second time before the callback of the first close has fired.
C38_ClosedAtMostOnce ==
    \A i \in 1..Len(fc.passed), j \in 1..Len(fc.passed) :
        i # j => fc.passed[i] # fc.passed[j]

-----------------------------------------------------------------------------
(* Values returned by the blocking calls: length() and File.readFd.        *)
(* The variable pc holds the file (its size, whether it is present), the   *)
(* last call and what it returned.                                         *)

MaxRead == 2

\* ... finally { return code !== ERROR ? data : ERROR }, data being a value
SyncValue(cb, ok, data, c) ==
    IF ok THEN Return(Issue(c), data)
    ELSE Return(handleError(NativeError, cb, Issue(c)), Num(ERROR))

\* readSync(fd, buffer, offset, length, position): the bytes from position
\* up to the end of the file, at most length of them
bytesRead(size, len, pos) == IF pos >= size THEN 0 ELSE Min(len, size - pos)

\* let stats = File.stat({ src: this.path, sync: true });
\* return stats !== ERROR ? stats.size : stats
lengthSync(size, ok, c) ==
    LET r == stat([argNull |-> FALSE, sync |-> TRUE, cb |-> NOCB], ok, c)
    IN  IF IsERROR(r.ret) THEN r ELSE Return(r, Num(size))

\* if (length === 0) length = buffer.length; data = readSync(...)
readFdSync(size, blen, len0, pos, cb, ok, c) ==
    LET len == IF len0 = 0 THEN blen ELSE len0
    IN  SyncValue(cb, ok, Num(bytesRead(size, len, pos)), c)

InitValue ==
    /\ EX = "null"
    /\ fs = NoFs
    /\ \E size \in 0..MaxSize, present \in BOOLEAN :
        pc = [op |-> "none", size |-> size, present |-> present,
              len |-> 0, pos |-> 0, cb |-> NOCB, nat |-> "none",
              c |-> Ctx("null")]
    /\ mk = Idle
    /\ rm = Idle
    /\ fh = Idle
    /\ fis = Idle
    /\ fw = Idle
    /\ fc = Idle

\* new File({ path }).length()
LengthCall ==
    /\ LET ok == pc.present
           r == lengthSync(pc.size, ok, Ctx(EX))
       IN  /\ pc' = [pc EXCEPT !.op = "length", !.cb = NOCB,
                        !.len = 0, !.pos = 0,
                        !.nat = IF ok THEN "ok" ELSE "fail", !.c = r]
           /\ EX' = r.EX
    /\ UNCHANGED <<fs, mk, rm, fh, fis, fw, fc>>

\* File.readFd({ src: fd, buffer, length, position, sync: true, onRead: cb })
\* on a descriptor of the file; the native read fails on a bad descriptor
ReadFdCall(len0, pos, cb) ==
    /\ \E ok \in BOOLEAN :
        LET r == readFdSync(pc.size, MaxRead, len0, pos, cb, ok, Ctx(EX))
        IN  /\ ok => pc.present
            /\ pc' = [pc EXCEPT !.op = "readFd", !.cb = cb,
                         !.len = len0, !.pos = pos,
                         !.nat = IF ok THEN "ok" ELSE "fail", !.c = r]
            /\ EX' = r.EX
    /\ UNCHANGED <<fs, mk, rm, fh, fis, fw, fc>>

NextValue ==
    \/ LengthCall
    \/ \E len0 \in 0..MaxRead, pos \in 0..MaxSize, cb \in {NOCB, USERCB} :
        ReadFdCall(len0, pos, cb)

SpecValue == InitValue /\ [][NextValue]_vars

\* C39: a blocking callback-less call returns a value equal to ERROR only
\* when it failed; length() of an empty file and a readFd that reads no
\* byte do not return a value equal to ERROR.
C39_ErrorOnlyOnFailure ==
    (pc.op \in {"length", "readFd"} /\ pc.cb = NOCB /\ IsERROR(pc.c.ret))
        => pc.nat = "fail"

-----------------------------------------------------------------------------
(* The window of an open stream.                                           *)

\* C40: after an open with a window (offset > 0 and length > 0), no
\* sequence of read, skip, mark and reset makes the position smaller than
\* the offset of the window.
C40_PositionNotBelowOffset ==
    (fis.lo > 0 /\ fis.buf # NoBuf) => fis.pos >= fis.lo

-----------------------------------------------------------------------------
(* SpecRimrafLinks: one rimraf call on the directory /d of a tree that     *)
(* holds a symbolic link to the directory /t, which lies outside /d and    *)
(* holds a plain file.                                                     *)

\* the places below RmRoot where the tree t can take one more entry
FreeSlots(t) ==
    {Append(par, n) : par \in t.dirs \ {<<>>}, n \in {"a", "b"}}
        \ (t.dirs \cup t.files)

\* the tree t with the directory /t, a plain file in it, and a link to /t
WithLink(t, l) ==
    [dirs |-> t.dirs \cup {LinkTarget}, cwd |-> t.cwd,
     files |-> t.files \cup {Append(LinkTarget, "a")}, links |-> {l}]

LinkTrees ==
    UNION {{WithLink(t, l) : l \in FreeSlots(t)} : t \in TreesUpTo(MaxEntries - 1)}

InitRimrafLinks ==
    /\ EX = "null"
    /\ fs \in LinkTrees
    /\ pc = PcInit
    /\ mk = Idle
    /\ rm = RmInit
    /\ fh = Idle
    /\ fis = Idle
    /\ fw = Idle
    /\ fc = Idle

SpecRimrafLinks == InitRimrafLinks /\ [][NextRimraf]_vars

\* C36: rimraf(d) removes only d and what lies inside its tree: every
\* entity outside of d that existed before the call exists after it; a link
\* to an outside directory is removed as one entry and nothing under its
\* target is deleted.
C36_OnlyInsideTree ==
    rm.op = "rimraf" =>
        \A q \in rm.fs0.dirs \cup rm.fs0.files :
            ~IsPrefix(RmRoot, q) => Exists(q, fs)

-----------------------------------------------------------------------------
(* SpecMkdirsPair: two non-blocking mkdirs calls made one after the other  *)
(* in one turn of the event loop, on two paths with the same ancestors and *)
(* different leaves.  mk.run holds the two calls in progress.              *)

\* the ancestor chains the two paths share, and the two leaves
PairAncestors == {<<"a">>, <<"a", "b">>}
PairLeaves == <<"x", "y">>

\* File.mkdirs({ src, onCreate: cb }) as one of the two calls
PairStart(src, cb) ==
    LET queue == splitPaths(src)
        r == mkdirsAsync(queue, cb, Ctx(EX))
    IN  [a |-> [argNull |-> FALSE, sync |-> FALSE, cb |-> cb], src |-> src,
         qlen |-> Len(queue), queue |-> r.queue, c |-> r.c, log |-> <<>>]

InitMkdirsPair ==
    /\ EX = "null"
    /\ \E w \in Cwds, pre \in SUBSET {<<"a">>, <<"w", "a">>} :
          fs = [dirs |-> {<<>>, w} \cup pre, files |-> {}, cwd |-> w]
    /\ pc = PcInit
    /\ mk = [op |-> "none"]
    /\ rm = Idle
    /\ fh = Idle
    /\ fis = Idle
    /\ fw = Idle
    /\ fc = Idle

\* the caller invokes File.mkdirs twice, with the leaves x and y under anc
PairCall(anc, abs, cb) ==
    /\ mk.op = "none"
    /\ mk' = [op |-> "pair", fs0 |-> fs,
              top |-> Resolve([abs |-> abs, segs |-> <<anc[1]>>], fs),
              run |-> [i \in 1..2 |->
                         PairStart([abs |-> abs,
                                    segs |-> Append(anc, PairLeaves[i])], cb)]]
    /\ UNCHANGED <<EX, fs, pc, rm, fh, fis, fw, fc>>

\* an outstanding native call of the i-th call ends and the event loop
\* runs its closure
PairStep(i) ==
    /\ mk.op = "pair"
    /\ \E n \in mk.run[i].c.pend :
        LET u == mk.run[i]
            s0 == [fs |-> fs, log |-> u.log, err |-> "none"]
            s1 == IF n.op = "access" THEN DoAccess(n.path, n.idx, s0)
                  ELSE DoMkdir(n.path, n.idx, 0, s0)
            c1 == [u.c EXCEPT !.pend = @ \ {n}, !.EX = EX]
            r == mkdirsClosure(n, u.queue, u.qlen, u.a.cb, c1, s1)
        IN  /\ mk' = [mk EXCEPT !.run[i].queue = r.queue, !.run[i].c = r.c,
                                !.run[i].log = s1.log]
            /\ EX' = r.c.EX
            /\ fs' = s1.fs
    /\ UNCHANGED <<pc, rm, fh, fis, fw, fc>>

NextMkdirsPair ==
    \/ \E anc \in PairAncestors, abs \in BOOLEAN, cb \in {NOCB, USERCB} :
          PairCall(anc, abs, cb)
    \/ \E i \in 1..2 : PairStep(i)

SpecMkdirsPair == InitMkdirsPair /\ [][NextMkdirsPair]_vars

\* C37: two non-blocking mkdirs started together on paths that share a
\* missing ancestor and have different leaves both complete with SUCCESS,
\* whatever the order in which their native calls end.
C37_BothSucceed ==
    (/\ mk.op = "pair"
     /\ ~Exists(mk.top, mk.fs0)
     /\ \A i \in 1..2 : mk.run[i].a.cb = USERCB /\ mk.run[i].c.pend = {})
        => \A i \in 1..2 : Told(mk.run[i]) = "SUCCESS"

=============================================================================
